---- MODULE Spec2Model ----
(***************************************************************************)
(* A model of logzilla's ingest engine: the storage buffer                 *)
(* (engine/source.go, storageManager), the processor pool                  *)
(* (engine/processor.go, processorManager), the engine life cycle          *)
(* (engine/orchestrator.go), the file source (source/file.go) and the JSON *)
(* processor (processor/json.go).  SpecSM runs the storage buffer with its *)
(* callers, SpecRun and FairSpecRun the engine of orchestrator.go with its  *)
(* own workers, SpecPool and FairSpecPool the pool of processor.go between *)
(* the channels its caller hands it, and SpecPipe and FairSpecPipe the     *)
(* engine whose loop hands the records of that pool to the storage buffer, *)
(* as the design document describes it.                                    *)
(* SpecConfig is the start of Run on any configuration.  The query         *)
(* language follows: SpecLex runs the lexer (querier/lexer/lexer.go),      *)
(* SpecParse the parser (querier/parser/parser.go), SpecSQL the SQL        *)
(* builder (querier/sqlbuilder.go) on time ranges and sort directives and  *)
(* SpecFilter on filter trees, SpecSearch the search endpoint              *)
(* (api/handler.go).  SpecJson calls the JSON processor on one record and  *)
(* SpecTail runs the file source on the bytes of its file.                 *)
(***************************************************************************)
EXTENDS Naturals, Integers, Sequences, FiniteSets, TLC

\* ------------------------------------------------------------------ bounds
\* Largest bufferMaxSize the storage buffer is configured with.
MaxBufSize == 3
\* Records handed to addProcessedLogs in one behaviour of the buffer alone, and
\* the calls of addProcessedLogs in it (a call may carry no record).
MaxRecords == 3
\* Ticks of the flush ticker whose findings are recorded in one behaviour.
MaxTicks == 1
\* Capacity of the raw and of the processed channel (5000 and 100 in the code).
ChanCap == 1
\* Workers of the processor pool (processorManager.workersCount).
NumWorkers == 2
\* Lines appended to the watched files in one behaviour.
MaxLines == 2
\* Largest value of a numeric field of the engine configuration.
MaxSetting == 1
\* Longest input of the lexer made of every rune of its alphabet.
MaxLen == 3
\* Most statements in one query text handed to the parser.
MaxStatements == 2
\* Latest instant of a query handed to the SQL builder.
MaxTime == 2
\* Bytes appended to a tailed file in one behaviour.
MaxWritten == 4
\* Events other than writes that the watcher of a tailed file reports.
MaxTouches == 1
\* Deepest nesting of a filter tree handed to the SQL builder.
MaxDepth == 2

\* ------------------------------------------------------------------- state
VARIABLES
    \* storageManager fields (engine/source.go:35-50)
    bufferMaxSize,      \* uint: 0 disables the size trigger
    flushInterval,      \* 0 disables the ticker, 1 stands for any T > 0
    processedBuffer,    \* the slice guarded by processedMutex
    smWg,               \* sm.wg: flush goroutines not yet finished
    flights,            \* the flush goroutines started by wg.Go, in start order
    \* storageManager.run, the goroutine of the periodic loop
    smPc,               \* "select" | "tickFlush" | "finalFlush" | "wait" | "returned"
    smToFlush,          \* flushBuffers' local processedToFlush
    \* the context shared by every component
    ctxDone,
    \* callers of addProcessedLogs
    addPc,              \* caller -> "idle" | "dispatch"
    addToFlush,         \* caller -> addProcessedLogs' local toFlush (<<>> is nil)
    \* observations, written and never read by the program
    nAdded,             \* records appended to the buffer so far
    calls,              \* the number of records of each addProcessedLogs call
    ticks,              \* ticks handled by run, counted up to MaxTicks
    tickSeen,           \* per counted tick: the buffer it found and nAdded then
    cancelSeen,         \* the buffer and nAdded at cancellation; a tick came after it
    finalSeen,          \* the buffer the ctx.Done branch found
    returnSeen,         \* Len(flights) when run returned
    \* FileLogSource.Provide, one goroutine per configured source
    srcPc,              \* key -> "start" | "select" | "send" | "returned"
    srcUnread,          \* key -> the lines not sent yet: [buf] in the reader, [file] in the file
    srcLine,            \* key -> the record Provide is sending
    nLines,             \* lines appended so far
    \* Engine.consumeLogs
    rawLogs,            \* the raw channel's buffer
    rawClosed,          \* close(rawLogs) has run
    \* the workers of processorManager.run or of Engine.processorWorker
    wPc,                \* worker -> "select" | "send" | "exited"
    wRec,               \* worker -> the processed record it is sending
    nextId,             \* the identifiers uuid.New() has handed out
    pmReturned,         \* pm.wg.Wait() has returned
    \* Engine.Run
    results,            \* the processed channel's buffer
    resultsClosed,      \* close(results) has run
    runPc,              \* "loop" | "returned"
    runErr,             \* what Run returned: "none" | "nil" | "ctx"
    \* observation: what the workers sent on the processed channel
    sent,
    \* Engine.Run's start (engine/orchestrator.go:48-51)
    config,             \* the engine.Config handed to New
    runPhase,           \* "new" | "rejected" | "started"
    \* lexer.Lexer (querier/lexer/lexer.go:5-10)
    lexer,              \* [input, pos, readPos, char]
    tokens,             \* observation: the tokens NextToken returned, with their start
    \* parser.Parser (querier/parser/parser.go:13-17) and the query it fills
    parser,             \* [curToken, peekToken, pc]
    query,              \* the *ast.Query of ParseQuery
    \* SQLQueryBuilder.Build (querier/sqlbuilder.go:53-81)
    sqlOpts,            \* the SQLOptions of the builder
    sqlQuery,           \* the ast.Query handed to Build
    sqlResult,          \* what Build returned for it
    sqlSwapped,         \* what Build returned for it with Start and End exchanged
    \* server.searchLogsHandler (api/handler.go:10-42)
    search,             \* [pc, body, status, fields, executed]: how far the request got
    \* JsonLogProcessor.Process (processor/json.go:112-153) called on its own
    jsonCall,           \* [record, called, result]
    \* FileLogSource.Provide (source/file.go:44-118) byte by byte
    tail                \* [pc, before, written, unread, buf, events, ..., emitted]

smState == <<bufferMaxSize, flushInterval, processedBuffer, smWg, flights, smPc,
             smToFlush, addPc, addToFlush, nAdded, calls, ticks, tickSeen,
             finalSeen, returnSeen>>

engVars == <<srcPc, srcUnread, srcLine, nLines, rawLogs, rawClosed, wPc,
             wRec, nextId, pmReturned, results, resultsClosed, runPc, runErr, sent>>

smVars == <<bufferMaxSize, flushInterval, processedBuffer, smWg, flights, smPc,
            smToFlush, ctxDone, addPc, addToFlush, nAdded, calls, ticks,
            tickSeen, cancelSeen, finalSeen, returnSeen>>

\* the start of Run and the query language
qVars == <<config, runPhase, lexer, tokens, parser, query, sqlOpts, sqlQuery,
           sqlResult, sqlSwapped, search, jsonCall, tail>>

vars == <<smVars, engVars, qVars>>

Adders == {1, 2}
NoSeen == [buffer |-> <<>>, added |-> 0, set |-> FALSE]
NoCancel == [buffer |-> <<>>, added |-> 0, set |-> FALSE, ticked |-> FALSE]

\* --------------------------------------------------------- storage manager
\* engine/source.go:128  the size trigger of addProcessedLogs
ReachedFlushSizeOff(buf, maxSize) == maxSize > 0 /\ Len(buf) > maxSize
ReachedFlushSize(buf, maxSize) == maxSize > 0 /\ Len(buf) >= maxSize

\* engine/source.go:94-99  flushBuffers' critical section: swap a non-empty buffer
flushSwapDrop(buf) == [toFlush |-> <<>>, buffer |-> <<>>]
flushSwapKeep(buf) ==
    [toFlush |-> buf, buffer |-> buf]
flushSwap(buf) ==
    IF Len(buf) > 0 THEN [toFlush |-> buf, buffer |-> <<>>]
                    ELSE [toFlush |-> <<>>, buffer |-> buf]

\* engine/source.go:106-115  flushProcessedLogs: wg.Go starts the goroutine that
\* calls StoreProcessedLogs with the batch
flushProcessedLogs(toFlush, by) ==
    /\ flights' = Append(flights, [batch |-> toFlush, by |-> by, done |-> FALSE])
    /\ smWg' = smWg + 1

\* engine/source.go:108-113  the goroutine's StoreProcessedLogs call returns
\* (with or without an error) and the wait group is released
FlushFinish(i) ==
    /\ i \in DOMAIN flights
    /\ ~flights[i].done
    /\ flights' = [flights EXCEPT ![i].done = TRUE]
    /\ smWg' = smWg - 1
    /\ UNCHANGED <<engVars, qVars>>
    /\ UNCHANGED <<bufferMaxSize, flushInterval, processedBuffer, smPc, smToFlush,
                   ctxDone, addPc, addToFlush, nAdded, calls, ticks, tickSeen,
                   cancelSeen, finalSeen, returnSeen>>

Fresh(n) == [i \in 1..n |-> nAdded + i]

\* engine/source.go:117-132  addProcessedLogs up to the unlock
addLocked(a, logs) ==
    LET appended == processedBuffer \o logs
        full == ReachedFlushSize(appended, bufferMaxSize)
    IN /\ processedBuffer' = IF full THEN <<>> ELSE appended
       /\ addToFlush' = [addToFlush EXCEPT ![a] = IF full THEN appended ELSE <<>>]
       /\ addPc' = [addPc EXCEPT ![a] = IF full THEN "dispatch" ELSE "idle"]

\* engine/source.go:117-132  addProcessedLogs(ctx, logs...) by caller a
addProcessedLogs(a, logs) ==
    /\ addPc[a] = "idle"
    /\ calls' = Append(calls, Len(logs))
    /\ nAdded' = nAdded + Len(logs)
    /\ IF Len(logs) = 0
         THEN UNCHANGED <<processedBuffer, addToFlush, addPc>>
         ELSE addLocked(a, logs)
    /\ UNCHANGED <<bufferMaxSize, flushInterval, smWg, flights, smPc, smToFlush,
                   ticks, tickSeen, finalSeen, returnSeen>>

\* a caller hands n new records to addProcessedLogs
AddCall(a, n) ==
    /\ Len(calls) < MaxRecords
    /\ nAdded + n <= MaxRecords
    /\ addProcessedLogs(a, Fresh(n))
    /\ UNCHANGED <<engVars, qVars>>
    /\ UNCHANGED <<ctxDone, cancelSeen>>

\* engine/source.go:135-137  addProcessedLogs after the unlock
AddDispatch(a) ==
    /\ addPc[a] = "dispatch"
    /\ flushProcessedLogs(addToFlush[a], "add")
    /\ addToFlush' = [addToFlush EXCEPT ![a] = <<>>]
    /\ addPc' = [addPc EXCEPT ![a] = "idle"]
    /\ UNCHANGED <<engVars, qVars>>
    /\ UNCHANGED <<bufferMaxSize, flushInterval, processedBuffer, smPc, smToFlush,
                   ctxDone, nAdded, calls, ticks, tickSeen, cancelSeen, finalSeen,
                   returnSeen>>

\* engine/source.go:79-85  run's ticker case: flushBuffers up to the unlock
SmTick ==
    /\ smPc = "select"
    /\ flushInterval > 0
    /\ IF ticks < MaxTicks
         THEN /\ ticks' = ticks + 1
              /\ tickSeen' = Append(tickSeen, [buffer |-> processedBuffer,
                                               added |-> nAdded])
         ELSE UNCHANGED <<ticks, tickSeen>>
    /\ cancelSeen' = IF ctxDone THEN [cancelSeen EXCEPT !.ticked = TRUE] ELSE cancelSeen
    /\ LET s == flushSwap(processedBuffer)
       IN /\ processedBuffer' = s.buffer
          /\ smToFlush' = s.toFlush
          /\ smPc' = IF Len(s.toFlush) > 0 THEN "tickFlush" ELSE "select"
    /\ UNCHANGED <<engVars, qVars>>
    /\ UNCHANGED <<bufferMaxSize, flushInterval, smWg, flights, ctxDone, addPc,
                   addToFlush, nAdded, calls, finalSeen, returnSeen>>

\* engine/source.go:101-103  flushBuffers after the unlock, in the ticker case
SmTickDispatch ==
    /\ smPc = "tickFlush"
    /\ flushProcessedLogs(smToFlush, "tick")
    /\ smToFlush' = <<>>
    /\ smPc' = "select"
    /\ UNCHANGED <<engVars, qVars>>
    /\ UNCHANGED <<bufferMaxSize, flushInterval, processedBuffer, ctxDone, addPc,
                   addToFlush, nAdded, calls, ticks, tickSeen, cancelSeen,
                   finalSeen, returnSeen>>

\* engine/source.go:72-73  run's ctx.Done case: the final flushBuffers up to the unlock
SmDone ==
    /\ smPc = "select"
    /\ ctxDone
    /\ finalSeen' = [buffer |-> processedBuffer, added |-> nAdded, set |-> TRUE]
    /\ LET s == flushSwap(processedBuffer)
       IN /\ processedBuffer' = s.buffer
          /\ smToFlush' = s.toFlush
          /\ smPc' = IF Len(s.toFlush) > 0 THEN "finalFlush" ELSE "wait"
    /\ UNCHANGED <<engVars, qVars>>
    /\ UNCHANGED <<bufferMaxSize, flushInterval, smWg, flights, ctxDone, addPc,
                   addToFlush, nAdded, calls, ticks, tickSeen, cancelSeen,
                   returnSeen>>

\* engine/source.go:101-103  the final flushBuffers after the unlock
SmFinalDispatch ==
    /\ smPc = "finalFlush"
    /\ flushProcessedLogs(smToFlush, "final")
    /\ smToFlush' = <<>>
    /\ smPc' = "wait"
    /\ UNCHANGED <<engVars, qVars>>
    /\ UNCHANGED <<bufferMaxSize, flushInterval, processedBuffer, ctxDone, addPc,
                   addToFlush, nAdded, calls, ticks, tickSeen, cancelSeen,
                   finalSeen, returnSeen>>

\* engine/source.go:74-75  sm.wg.Wait() and return
WaitReleasedEarly(wg) == TRUE
WaitReleased(wg) == wg = 0

SmReturn ==
    /\ smPc = "wait"
    /\ WaitReleased(smWg)
    /\ smPc' = "returned"
    /\ returnSeen' = Len(flights)
    /\ UNCHANGED <<engVars, qVars>>
    /\ UNCHANGED <<bufferMaxSize, flushInterval, processedBuffer, smWg, flights,
                   smToFlush, ctxDone, addPc, addToFlush, nAdded, calls, ticks,
                   tickSeen, cancelSeen, finalSeen>>

\* ------------------------------------------------------------ record model
\* entity.LogRecord (ID, Source, RawData, Level, Timestamp, Message, Metadata).
\* RawData is a line of a file: `json` tells what json.Unmarshal into a
\* map[string]any makes of it, `doc` is the decoded object, `text` the bytes.
\* A JSON value is [k |-> "string" | "number", v |-> its text].
NilID == 0
\* time.Time: an instant as the days since January 1 of the year 1 (UTC), the
\* second of that day and the nanosecond of that second; time.Time{} is the
\* first instant of the year 1, and January 1, 1970 is day 719162
Instant(day, sec, nsec) ==
    [day |-> day + (sec \div 86400), sec |-> sec % 86400, nsec |-> nsec]
ZeroTime == Instant(0, 0, 0)
\* time.Unix(sec, 0)
Unix(sec) == Instant(719162, sec, 0)
\* time.Time.Before and time.Time.Compare(u) < 0
Before(t, u) ==
    \/ t.day < u.day
    \/ t.day = u.day /\ t.sec < u.sec
    \/ t.day = u.day /\ t.sec = u.sec /\ t.nsec < u.nsec
\* time.Now() when a line is read
IngestTime == Unix(1700000000)
NoDoc == <<>>
NilRaw == [json |-> "invalid", doc |-> NoDoc, text |-> ""]
JStr(v) == [k |-> "string", v |-> v]
JNum(v) == [k |-> "number", v |-> v]
RawObject(text, doc) == [json |-> "object", doc |-> doc, text |-> text]
RawText(text) == [json |-> "invalid", doc |-> NoDoc, text |-> text]

LogLevelUnknown == 0
LogLevelDebug == 1
LogLevelInfo == 2
LogLevelWarn == 3
LogLevelError == 4
LogLevelFatal == 5

\* the zero value entity.LogRecord{}
ZeroRecord ==
    [id |-> NilID, source |-> "", rawData |-> NilRaw, level |-> LogLevelUnknown,
     timestamp |-> ZeroTime, message |-> "", metadata |-> NoDoc]

\* strings.ToLower on the level strings of the model
ToLower(str) ==
    CASE str = "WARN" -> "warn"
      [] str = "Warn" -> "warn"
      [] str = "INFO" -> "info"
      [] str = "Error" -> "error"
      [] OTHER -> str

\* processor/util.go:9-24
parseLevelExact(level) ==
    CASE level = "debug" -> LogLevelDebug
      [] level = "info" -> LogLevelInfo
      [] level = "warn" -> LogLevelWarn
      [] level = "error" -> LogLevelError
      [] level = "fatal" -> LogLevelFatal
      [] OTHER -> LogLevelUnknown
parseLevel(level) ==
    LET l == ToLower(level)
    IN CASE l = "debug" -> LogLevelDebug
         [] l = "info" -> LogLevelInfo
         [] l = "warn" -> LogLevelWarn
         [] l = "error" -> LogLevelError
         [] l = "fatal" -> LogLevelFatal
         [] OTHER -> LogLevelUnknown

\* time.Parse(time.RFC3339, value) on the timestamp strings of the model
ParseRFC3339(value) ==
    CASE value = "2024-01-02T03:04:05Z" -> [err |-> FALSE, t |-> Unix(1704164645)]
      [] value = "2024-01-02T04:04:05+01:00" -> [err |-> FALSE, t |-> Unix(1704164645)]
      [] value = "1970-01-01T00:00:01Z" -> [err |-> FALSE, t |-> Unix(1)]
      [] OTHER -> [err |-> TRUE, t |-> ZeroTime]

Without(data, keys) == [k \in (DOMAIN data) \ keys |-> data[k]]

\* JsonLogProcessorConfig, as cmd/cli/main.go configures it
LogLevelFieldName == "l"
LogMessageFieldName == "m"
LogTimestampFieldName == "t"

Failed(rec) == [err |-> TRUE, rec |-> rec]
Succeeded(rec) == [err |-> FALSE, rec |-> rec]

\* the record JsonLogProcessor.Process returns on success (processor/json.go:147-152)
jsonResult(record, level, message, timestamp, data) ==
    [ZeroRecord EXCEPT !.level = level, !.message = message,
                       !.timestamp = timestamp, !.metadata = data]

\* processor/json.go:112-153  JsonLogProcessor.Process
JsonProcess(record) ==
    IF record.rawData.json # "object" THEN Failed(ZeroRecord)
    ELSE
    LET data == record.rawData.doc
        ok == LogTimestampFieldName \in DOMAIN data
        isString == ok /\ data[LogTimestampFieldName].k = "string"
        timestampValue == IF isString THEN data[LogTimestampFieldName].v ELSE ""
    IN IF ~ok \/ ~isString \/ timestampValue = "" THEN Failed(ZeroRecord)
       ELSE
       LET parsed == ParseRFC3339(timestampValue)
           data1 == Without(data, {LogTimestampFieldName})
           okL == LogLevelFieldName \in DOMAIN data1
           isStringL == okL /\ data1[LogLevelFieldName].k = "string"
       IN IF parsed.err THEN Failed(ZeroRecord)
          ELSE IF ~okL \/ ~isStringL THEN Failed(ZeroRecord)
          ELSE
          LET level == parseLevel(data1[LogLevelFieldName].v)
              data2 == Without(data1, {LogLevelFieldName})
              messageValue ==
                  IF LogMessageFieldName \in DOMAIN data2
                       /\ data2[LogMessageFieldName].k = "string"
                    THEN data2[LogMessageFieldName].v
                    ELSE ""
              data3 == Without(data2, {LogMessageFieldName})
          IN Succeeded(jsonResult(record, level, messageValue, parsed.t, data3))

\* the user's script: parse_log(raw) returns level, message, timestamp and
\* metadata for the plain-text lines it knows and raises an error on any other
parse_log(text) ==
    CASE text = "2024-01-02T03:04:05Z WARN disk" ->
            [err |-> FALSE, level |-> "WARN", message |-> "disk",
             ts |-> "2024-01-02T03:04:05Z", meta |-> NoDoc]
      [] text = "yesterday INFO up" ->
            [err |-> FALSE, level |-> "INFO", message |-> "up",
             ts |-> "yesterday", meta |-> NoDoc]
      [] OTHER ->
            [err |-> TRUE, level |-> "", message |-> "", ts |-> "", meta |-> NoDoc]

\* LuaLogProcessor.Process: an error returns the record it was given
LuaProcess(record) ==
    LET r == parse_log(record.rawData.text)
    IN IF r.err THEN Failed(record)
       ELSE LET luaTimestamp == ParseRFC3339(r.ts)
            IN IF luaTimestamp.err THEN Failed(record)
               ELSE Succeeded([ZeroRecord EXCEPT !.timestamp = luaTimestamp.t,
                                                 !.level = parseLevel(r.level),
                                                 !.message = r.message,
                                                 !.metadata = r.meta])

\* ------------------------------------------------------- engine configuration
\* Config.Sources: the key a source is registered under, the name its records
\* carry (FileLogSource.Name) and its processor chain. "sys" is registered under a
\* key that is not its name, as cmd/cli/main.go is free to do.
Sources ==
    [app |-> [name |-> "app", chain |-> <<"ghost", "json", "lua">>],
     sys |-> [name |-> "syslog", chain |-> <<"lua", "json">>]]
SourceKeys == DOMAIN Sources

\* Config.Processors: name -> kind; "ghost" is named by a chain and not registered
Processors == [json |-> "json", lua |-> "lua"]

Process(pName, record) ==
    IF Processors[pName] = "json" THEN JsonProcess(record) ELSE LuaProcess(record)

\* engine/processor.go:84-97  one link of the chain: the record carried on
carryLinkReturned(pName, rawLog) ==
    IF pName \notin DOMAIN Processors THEN rawLog
    ELSE Process(pName, rawLog).rec
carryLink(pName, rawLog) ==
    IF pName \notin DOMAIN Processors THEN rawLog
    ELSE LET r == Process(pName, rawLog)
         IN IF r.err THEN rawLog ELSE r.rec

LinkFails(pName, rawLog) ==
    pName \notin DOMAIN Processors \/ Process(pName, rawLog).err

RECURSIVE chainTraceStop(_, _)
chainTraceStop(chain, trace) ==
    IF Len(trace) > Len(chain) THEN trace
    ELSE IF LinkFails(chain[Len(trace)], trace[Len(trace)]) THEN trace
    ELSE chainTraceStop(chain, Append(trace, carryLink(chain[Len(trace)], trace[Len(trace)])))

\* engine/processor.go:83-99  the loop over src.ProcessorNames(); the value is the
\* record carried before the first link and after each link
RECURSIVE chainTrace(_, _)
chainTrace(chain, trace) ==
    IF Len(trace) > Len(chain) THEN trace
    ELSE chainTrace(chain, Append(trace, carryLink(chain[Len(trace)], trace[Len(trace)])))

processChain(chain, rawLog) == chainTrace(chain, <<rawLog>>)

\* engine/processor.go:76-100  processLog, with the records it carried
processLogTrace(rawLog) ==
    IF rawLog.source \notin SourceKeys THEN <<rawLog>>
    ELSE processChain(Sources[rawLog.source].chain, rawLog)

Last(seq) == seq[Len(seq)]
processLog(rawLog) == Last(processLogTrace(rawLog))

\* engine/processor.go:52  processed.ID = uuid.New()
assignIDKnown(processed, fresh) ==
    IF processed.source \in SourceKeys THEN [processed EXCEPT !.id = fresh]
                                       ELSE processed
assignID(processed, fresh) == [processed EXCEPT !.id = fresh]

\* the lines appended to the watched files
DocOk == [t |-> JStr("2024-01-02T03:04:05Z"), l |-> JStr("warn"),
          m |-> JStr("disk"), host |-> JStr("a")]
DocNoLevel == [t |-> JStr("2024-01-02T03:04:05Z"), m |-> JStr("disk")]
Lines ==
    { RawObject("{ok}", DocOk),
      RawObject("{nolevel}", DocNoLevel),
      RawText("2024-01-02T03:04:05Z WARN disk") }

\* ------------------------------------------------------------- file source
Workers == 1..NumWorkers

\* source/file.go:44-66  open, seek to the end, install the watcher
SrcStart(s) ==
    /\ srcPc[s] = "start"
    /\ srcPc' = [srcPc EXCEPT ![s] = "select"]
    /\ UNCHANGED <<srcUnread, srcLine, nLines, rawLogs, rawClosed, wPc,
                   wRec, nextId, pmReturned, results, resultsClosed, runPc, runErr,
                   sent>>
    /\ UNCHANGED <<smState, ctxDone, cancelSeen, qVars>>

\* source/file.go:45-66  a failure at start-up returns the error
SrcStartFail(s) ==
    /\ srcPc[s] = "start"
    /\ srcPc' = [srcPc EXCEPT ![s] = "returned"]
    /\ UNCHANGED <<srcUnread, srcLine, nLines, rawLogs, rawClosed, wPc,
                   wRec, nextId, pmReturned, results, resultsClosed, runPc, runErr,
                   sent>>
    /\ UNCHANGED <<smState, ctxDone, cancelSeen, qVars>>

\* another process appends a complete line to the file; fsnotify reports a write
FileWrite(s, line) ==
    /\ srcPc[s] \in {"select", "send"}
    /\ nLines < MaxLines
    /\ nLines' = nLines + 1
    /\ srcUnread' = [srcUnread EXCEPT ![s].file = Append(@, line)]
    /\ UNCHANGED <<srcPc, srcLine, rawLogs, rawClosed, wPc, wRec, nextId,
                   pmReturned, results, resultsClosed, runPc, runErr, sent>>
    /\ UNCHANGED <<smState, ctxDone, cancelSeen, qVars>>

\* source/file.go:94-100  ReadBytes and the record built from the line
lineRecord(s, line) ==
    [ZeroRecord EXCEPT !.source = Sources[s].name, !.rawData = line,
                       !.timestamp = IngestTime]

\* nothing is left to read, in the reader or in the file
NoUnread == [buf |-> <<>>, file |-> <<>>]
AllRead(unread) == unread.buf = <<>> /\ unread.file = <<>>

\* source/file.go:93-109  one turn of the read loop: a line the reader holds
\* is sent; when it holds none it reads the file, and then Provide returns
\* the error of the read (fails), the loop ends at the end of the file, or
\* the first line read is sent and the reader holds the others
readNext(s, unread, fails) ==
    IF unread.buf # <<>>
      THEN /\ srcPc' = [srcPc EXCEPT ![s] = "send"]
           /\ srcLine' = [srcLine EXCEPT ![s] = lineRecord(s, Head(unread.buf))]
           /\ srcUnread' = [srcUnread EXCEPT ![s].buf = Tail(@)]
    ELSE IF fails
      THEN /\ srcPc' = [srcPc EXCEPT ![s] = "returned"]
           /\ srcLine' = [srcLine EXCEPT ![s] = ZeroRecord]
           /\ srcUnread' = srcUnread
    ELSE IF unread.file = <<>>
      THEN /\ srcPc' = [srcPc EXCEPT ![s] = "select"]
           /\ srcLine' = [srcLine EXCEPT ![s] = ZeroRecord]
           /\ srcUnread' = srcUnread
    ELSE /\ srcPc' = [srcPc EXCEPT ![s] = "send"]
         /\ srcLine' = [srcLine EXCEPT ![s] = lineRecord(s, Head(unread.file))]
         /\ srcUnread' = [srcUnread EXCEPT ![s] = [buf |-> Tail(unread.file),
                                                  file |-> <<>>]]

\* source/file.go:75-109  a write event is received and the read loop entered
\* (an event that finds nothing to read and no error goes round the loop and
\* changes nothing)
SrcEvent(s) ==
    /\ srcPc[s] = "select"
    /\ ~AllRead(srcUnread[s])
    /\ \E fails \in BOOLEAN : readNext(s, srcUnread[s], fails)
    /\ UNCHANGED <<nLines, rawLogs, rawClosed, wPc, wRec, nextId, pmReturned,
                   results, resultsClosed, runPc, runErr, sent>>
    /\ UNCHANGED <<smState, ctxDone, cancelSeen, qVars>>

\* source/file.go:101  logChan <- l: the send waits for room and for nothing else
SendReady(ch, closed) == Len(ch) < ChanCap

SrcSend(s) ==
    /\ srcPc[s] = "send"
    /\ SendReady(rawLogs, rawClosed)
    /\ rawLogs' = Append(rawLogs, srcLine[s])
    /\ \E fails \in BOOLEAN : readNext(s, srcUnread[s], fails)
    /\ UNCHANGED <<nLines, rawClosed, wPc, wRec, nextId, pmReturned,
                   results, resultsClosed, runPc, runErr, sent>>
    /\ UNCHANGED <<smState, ctxDone, cancelSeen, qVars>>

\* source/file.go:72-73  case <-ctx.Done(): return nil
SrcCancelled(s) ==
    /\ srcPc[s] = "select"
    /\ ctxDone
    /\ srcPc' = [srcPc EXCEPT ![s] = "returned"]
    /\ UNCHANGED <<srcUnread, srcLine, nLines, rawLogs, rawClosed, wPc,
                   wRec, nextId, pmReturned, results, resultsClosed, runPc, runErr,
                   sent>>
    /\ UNCHANGED <<smState, ctxDone, cancelSeen, qVars>>

\* source/file.go:75-79, 111-115  the watcher's channels are closed or report an error
SrcWatcherEnd(s) ==
    /\ srcPc[s] = "select"
    /\ srcPc' = [srcPc EXCEPT ![s] = "returned"]
    /\ UNCHANGED <<srcUnread, srcLine, nLines, rawLogs, rawClosed, wPc,
                   wRec, nextId, pmReturned, results, resultsClosed, runPc, runErr,
                   sent>>
    /\ UNCHANGED <<smState, ctxDone, cancelSeen, qVars>>

\* engine/orchestrator.go:118-121  the aggregator: sourceWg.Wait(); close(rawLogs)
CloseRawEarly ==
    /\ ~rawClosed
    /\ rawClosed' = TRUE
    /\ UNCHANGED <<srcPc, srcUnread, srcLine, nLines, rawLogs, wPc, wRec,
                   nextId, pmReturned, results, resultsClosed, runPc, runErr, sent>>
    /\ UNCHANGED <<smState, ctxDone, cancelSeen, qVars>>
CloseRaw ==
    /\ ~rawClosed
    /\ \A s \in SourceKeys : srcPc[s] = "returned"
    /\ rawClosed' = TRUE
    /\ UNCHANGED <<srcPc, srcUnread, srcLine, nLines, rawLogs, wPc, wRec,
                   nextId, pmReturned, results, resultsClosed, runPc, runErr, sent>>
    /\ UNCHANGED <<smState, ctxDone, cancelSeen, qVars>>

\* ---------------------------------------------------------- processor pool
\* engine/processor.go:49-54  a raw record is received, processed and given its identifier
WorkerRead(w) ==
    /\ wPc[w] = "select"
    /\ rawLogs # <<>>
    /\ LET j == Head(rawLogs)
           trace == processLogTrace(j)
           processed == assignID(Last(trace), nextId + 1)
       IN wRec' = [wRec EXCEPT ![w] = [raw |-> j, trace |-> trace, out |-> processed]]
    /\ nextId' = nextId + 1
    /\ rawLogs' = Tail(rawLogs)
    /\ wPc' = [wPc EXCEPT ![w] = "send"]
    /\ UNCHANGED <<srcPc, srcUnread, srcLine, nLines, rawClosed,
                   pmReturned, results, resultsClosed, runPc, runErr, sent>>
    /\ UNCHANGED <<smState, ctxDone, cancelSeen, qVars>>

\* engine/processor.go:49-53  the raw channel is closed and empty
WorkerClosed(w) ==
    /\ wPc[w] = "select"
    /\ rawLogs = <<>>
    /\ rawClosed
    /\ wPc' = [wPc EXCEPT ![w] = "exited"]
    /\ UNCHANGED <<srcPc, srcUnread, srcLine, nLines, rawLogs, rawClosed,
                   wRec, nextId, pmReturned, results, resultsClosed, runPc, runErr,
                   sent>>
    /\ UNCHANGED <<smState, ctxDone, cancelSeen, qVars>>

\* engine/processor.go:47-48  case <-ctx.Done(): return
WorkerCancelled(w) ==
    /\ wPc[w] = "select"
    /\ ctxDone
    /\ wPc' = [wPc EXCEPT ![w] = "exited"]
    /\ UNCHANGED <<srcPc, srcUnread, srcLine, nLines, rawLogs, rawClosed,
                   wRec, nextId, pmReturned, results, resultsClosed, runPc, runErr,
                   sent>>
    /\ UNCHANGED <<smState, ctxDone, cancelSeen, qVars>>

\* engine/processor.go:58-59  case results <- processed
WorkerSend(w) ==
    /\ wPc[w] = "send"
    /\ Len(results) < ChanCap
    /\ results' = Append(results, wRec[w].out)
    /\ sent' = Append(sent, wRec[w])
    /\ wPc' = [wPc EXCEPT ![w] = "select"]
    /\ UNCHANGED <<srcPc, srcUnread, srcLine, nLines, rawLogs, rawClosed,
                   wRec, nextId, pmReturned, resultsClosed, runPc, runErr>>
    /\ UNCHANGED <<smState, ctxDone, cancelSeen, qVars>>

\* engine/processor.go:60-62  the send is abandoned when the context is cancelled
SendAbandonedNever(done) == FALSE
SendAbandoned(done) == done

WorkerSendCancelled(w) ==
    /\ wPc[w] = "send"
    /\ SendAbandoned(ctxDone)
    /\ wPc' = [wPc EXCEPT ![w] = "exited"]
    /\ UNCHANGED <<srcPc, srcUnread, srcLine, nLines, rawLogs, rawClosed,
                   wRec, nextId, pmReturned, results, resultsClosed, runPc, runErr,
                   sent>>
    /\ UNCHANGED <<smState, ctxDone, cancelSeen, qVars>>

\* engine/processor.go:66-72  pm.wg.Wait() returns and run with it
PoolDrainedAny(pcs) == \E w \in Workers : pcs[w] = "exited"
PoolDrained(pcs) == \A w \in Workers : pcs[w] = "exited"

PmReturn ==
    /\ ~pmReturned
    /\ PoolDrained(wPc)
    /\ pmReturned' = TRUE
    /\ UNCHANGED <<srcPc, srcUnread, srcLine, nLines, rawLogs, rawClosed,
                   wPc, wRec, nextId, results, resultsClosed, runPc, runErr, sent>>
    /\ UNCHANGED <<smState, ctxDone, cancelSeen, qVars>>

\* ------------------------------------------- the workers of orchestrator.go
\* engine/orchestrator.go:126-150  Engine.processLog, with the records it
\* carried; its loop over src.ProcessorNames() is the loop of processor.go:83-97
engineProcessLogTrace(rawLog) ==
    IF rawLog.source \notin SourceKeys THEN <<rawLog>>
    ELSE processChain(Sources[rawLog.source].chain, rawLog)

\* engine/orchestrator.go:157-163  Engine.processorWorker: a raw record is
\* received and processed; it keeps the identifier its processors left
ProcessorWorkerRead(w) ==
    /\ wPc[w] = "select"
    /\ rawLogs # <<>>
    /\ LET j == Head(rawLogs)
           trace == engineProcessLogTrace(j)
       IN wRec' = [wRec EXCEPT ![w] = [raw |-> j, trace |-> trace, out |-> Last(trace)]]
    /\ rawLogs' = Tail(rawLogs)
    /\ wPc' = [wPc EXCEPT ![w] = "send"]
    /\ UNCHANGED <<srcPc, srcUnread, srcLine, nLines, rawClosed, nextId,
                   pmReturned, results, resultsClosed, runPc, runErr, sent>>
    /\ UNCHANGED <<smState, ctxDone, cancelSeen, qVars>>

\* engine/orchestrator.go:157-161  the jobs channel is closed and empty
ProcessorWorkerClosed(w) ==
    /\ wPc[w] = "select"
    /\ rawLogs = <<>>
    /\ rawClosed
    /\ wPc' = [wPc EXCEPT ![w] = "exited"]
    /\ UNCHANGED <<srcPc, srcUnread, srcLine, nLines, rawLogs, rawClosed,
                   wRec, nextId, pmReturned, results, resultsClosed, runPc, runErr,
                   sent>>
    /\ UNCHANGED <<smState, ctxDone, cancelSeen, qVars>>

\* engine/orchestrator.go:155-156  case <-ctx.Done(): return
ProcessorWorkerCancelled(w) ==
    /\ wPc[w] = "select"
    /\ ctxDone
    /\ wPc' = [wPc EXCEPT ![w] = "exited"]
    /\ UNCHANGED <<srcPc, srcUnread, srcLine, nLines, rawLogs, rawClosed,
                   wRec, nextId, pmReturned, results, resultsClosed, runPc, runErr,
                   sent>>
    /\ UNCHANGED <<smState, ctxDone, cancelSeen, qVars>>

\* engine/orchestrator.go:165-166  case results <- processed
ProcessorWorkerSend(w) ==
    /\ wPc[w] = "send"
    /\ Len(results) < ChanCap
    /\ results' = Append(results, wRec[w].out)
    /\ sent' = Append(sent, wRec[w])
    /\ wPc' = [wPc EXCEPT ![w] = "select"]
    /\ UNCHANGED <<srcPc, srcUnread, srcLine, nLines, rawLogs, rawClosed,
                   wRec, nextId, pmReturned, resultsClosed, runPc, runErr>>
    /\ UNCHANGED <<smState, ctxDone, cancelSeen, qVars>>

\* engine/orchestrator.go:167-170  the send is abandoned when the context is
\* cancelled
ProcessorWorkerSendCancelled(w) ==
    /\ wPc[w] = "send"
    /\ ctxDone
    /\ wPc' = [wPc EXCEPT ![w] = "exited"]
    /\ UNCHANGED <<srcPc, srcUnread, srcLine, nLines, rawLogs, rawClosed,
                   wRec, nextId, pmReturned, results, resultsClosed, runPc, runErr,
                   sent>>
    /\ UNCHANGED <<smState, ctxDone, cancelSeen, qVars>>

\* ------------------------------------------------------------------ engine
\* engine/orchestrator.go:74-78  workersWg.Wait(); close(results)
CloseResults ==
    /\ ~resultsClosed
    /\ PoolDrained(wPc)
    /\ resultsClosed' = TRUE
    /\ UNCHANGED <<srcPc, srcUnread, srcLine, nLines, rawLogs, rawClosed,
                   wPc, wRec, nextId, pmReturned, results, runPc, runErr, sent>>
    /\ UNCHANGED <<smState, ctxDone, cancelSeen, qVars>>

\* engine/orchestrator.go:83-85  case <-ctx.Done(): return ctx.Err()
RunCtxDone ==
    /\ runPc = "loop"
    /\ ctxDone
    /\ runPc' = "returned"
    /\ runErr' = "ctx"
    /\ UNCHANGED <<srcPc, srcUnread, srcLine, nLines, rawLogs, rawClosed,
                   wPc, wRec, nextId, pmReturned, results, resultsClosed, sent>>
    /\ UNCHANGED <<smState, ctxDone, cancelSeen, qVars>>

\* engine/orchestrator.go:86-93  a processed record is received and logged
RunRecv ==
    /\ runPc = "loop"
    /\ results # <<>>
    /\ results' = Tail(results)
    /\ UNCHANGED <<srcPc, srcUnread, srcLine, nLines, rawLogs, rawClosed,
                   wPc, wRec, nextId, pmReturned, resultsClosed, runPc, runErr, sent>>
    /\ UNCHANGED <<smState, ctxDone, cancelSeen, qVars>>

\* engine/orchestrator.go:87-90  the processed channel is closed and drained
RunClosed ==
    /\ runPc = "loop"
    /\ results = <<>>
    /\ resultsClosed
    /\ runPc' = "returned"
    /\ runErr' = "nil"
    /\ UNCHANGED <<srcPc, srcUnread, srcLine, nLines, rawLogs, rawClosed,
                   wPc, wRec, nextId, pmReturned, results, resultsClosed, sent>>
    /\ UNCHANGED <<smState, ctxDone, cancelSeen, qVars>>

\* the caller's context is cancelled (cmd/engine/main.go:47-51)
Cancel ==
    /\ ~ctxDone
    /\ ctxDone' = TRUE
    /\ cancelSeen' = [buffer |-> processedBuffer, added |-> nAdded, set |-> TRUE,
                      ticked |-> FALSE]
    /\ UNCHANGED <<engVars, qVars>>
    /\ UNCHANGED <<bufferMaxSize, flushInterval, processedBuffer, smWg, flights,
                   smPc, smToFlush, addPc, addToFlush, nAdded, calls, ticks,
                   tickSeen, finalSeen, returnSeen>>

\* ------------------------------------------------------------- Run's start
\* engine.Config as cmd/engine/main.go:204-212 fills it: the number of
\* sources, whether a storage is set, and the numeric settings
Configs ==
    [Sources : 0..MaxSetting,
     Storage : {"nil", "set"},
     RawLogsBufferMaxSize : 0..MaxSetting,
     StorageFlushInterval : 0..MaxSetting,
     ProcessedLogsBufferMaxSize : 0..MaxSetting,
     ProcessorWorkersCount : 0..MaxSetting]
NoConfig ==
    [Sources |-> 0, Storage |-> "nil", RawLogsBufferMaxSize |-> 0,
     StorageFlushInterval |-> 0, ProcessedLogsBufferMaxSize |-> 0,
     ProcessorWorkersCount |-> 0]

\* engine/orchestrator.go:40-46  ValidateConfig: "nil" or the error
ValidateConfig(cfg) ==
    IF cfg.Sources = 0 THEN "no log sources configured" ELSE "nil"

\* engine/orchestrator.go:49-51  Run returns the validation's error
RunRejected ==
    /\ runPhase = "new"
    /\ ValidateConfig(config) # "nil"
    /\ runPhase' = "rejected"
    /\ UNCHANGED <<config, lexer, tokens, parser, query, sqlOpts, search, jsonCall, tail,
                   sqlQuery, sqlResult,
                   sqlSwapped>>
    /\ UNCHANGED <<smVars, engVars>>

\* engine/orchestrator.go:49-78  the configuration passed: consumeLogs starts the
\* sources and the aggregator, Run starts the workers and the closer
RunStarted ==
    /\ runPhase = "new"
    /\ ValidateConfig(config) = "nil"
    /\ runPhase' = "started"
    /\ UNCHANGED <<config, lexer, tokens, parser, query, sqlOpts, search, jsonCall, tail,
                   sqlQuery, sqlResult,
                   sqlSwapped>>
    /\ UNCHANGED <<smVars, engVars>>

\* ------------------------------------------------------------------- lexer
\* A string is the []rune of the input; runes are strings of length one and
\* the rune 0, which readChar yields past the end, is the empty string.
NUL == ""
Ch(str, i) == SubSeq(str, i, i)
\* Go's input[from:to]
Slice(str, from, to) == SubSeq(str, from + 1, to)
Runes(str) == {Ch(str, i) : i \in 1..Len(str)}

\* querier/token/token.go:38-41  token.Token
Token(type, literal) == [Type |-> type, Literal |-> literal]
\* the zero value token.Token{}: ILLEGAL is the TokenType 0
NoToken == Token("ILLEGAL", "")

\* querier/lexer/lexer.go:12-16
keywords == ("null" :> "NULL") @@ ("true" :> "TRUE") @@ ("false" :> "FALSE")

\* querier/lexer/lexer.go:24-32
readChar(l) ==
    [l EXCEPT !.char = IF l.readPos >= Len(l.input) THEN NUL
                       ELSE Ch(l.input, l.readPos + 1),
              !.pos = l.readPos,
              !.readPos = l.readPos + 1]

\* querier/lexer/lexer.go:34-40
peekChar(l) ==
    IF l.readPos >= Len(l.input) THEN NUL ELSE Ch(l.input, l.readPos + 1)

\* querier/lexer/lexer.go:18-22  lexer.New
LexerNew(input) ==
    readChar([input |-> input, pos |-> 0, readPos |-> 0, char |-> NUL])

\* querier/lexer/lexer.go:128-138, 197-199
isLetter(r) ==
    \/ r \in Runes("abcdefghijklmnopqrstuvwxyz")
    \/ r \in Runes("ABCDEFGHIJKLMNOPQRSTUVWXYZ")
    \/ r = "_" \/ r = "." \/ r = "-"
isDigit(r) == r \in Runes("0123456789")
isWhitespace(r) == r = " " \/ r = "\t" \/ r = "\n" \/ r = "\r"
isOperator(r) == r \in {"=", "~", "!", "&", "|", "(", ")", "<", ">"}

\* querier/lexer/lexer.go:140-144
RECURSIVE skipWhitespace(_)
skipWhitespace(l) ==
    IF isWhitespace(l.char) THEN skipWhitespace(readChar(l)) ELSE l

\* querier/lexer/lexer.go:121-126
lookupIdent(ident) ==
    IF ident \in DOMAIN keywords THEN keywords[ident] ELSE "IDENT"

\* querier/lexer/lexer.go:108-114  the loop of readIdentifier
identifierEnds(r) == r = NUL \/ isWhitespace(r) \/ r = "," \/ isOperator(r)
RECURSIVE readIdentifierLoop(_)
readIdentifierLoop(l) ==
    IF identifierEnds(l.char) THEN l ELSE readIdentifierLoop(readChar(l))

\* querier/lexer/lexer.go:105-119
readIdentifier(l) ==
    LET end == readIdentifierLoop(l)
        literal == Slice(l.input, l.pos, end.pos)
    IN [tok |-> Token(lookupIdent(literal), literal), l |-> end]

\* querier/lexer/lexer.go:160  the boundaries of a numeric run
numberEndsAtDash(r) ==
    \/ r = "," \/ r = " " \/ r = "\t" \/ r = "\n" \/ r = "\r" \/ r = NUL
    \/ r = "-" \/ isOperator(r)
numberEnds(r) ==
    \/ r = "," \/ r = " " \/ r = "\t" \/ r = "\n" \/ r = "\r" \/ r = NUL
    \/ isOperator(r)

\* querier/lexer/lexer.go:151-169  the loop of readPossibleNumber
RECURSIVE readPossibleNumberLoop(_, _, _)
readPossibleNumberLoop(l, hasDot, isPureNumber) ==
    IF isDigit(l.char)
      THEN readPossibleNumberLoop(readChar(l), hasDot, isPureNumber)
      ELSE IF l.char = "."
        THEN readPossibleNumberLoop(readChar(l), TRUE,
                                    IF hasDot THEN FALSE ELSE isPureNumber)
        ELSE IF numberEnds(l.char)
          THEN [l |-> l, hasDot |-> hasDot, isPureNumber |-> isPureNumber]
          ELSE readPossibleNumberLoop(readChar(l), hasDot, FALSE)

\* querier/lexer/lexer.go:146-180
readPossibleNumber(l) ==
    LET end == readPossibleNumberLoop(l, FALSE, TRUE)
        literal == Slice(l.input, l.pos, end.l.pos)
    IN [tok |-> IF ~end.isPureNumber THEN Token("STRING", literal)
                ELSE IF end.hasDot THEN Token("DECIMAL", literal)
                ELSE Token("INT", literal),
        l |-> end.l]

\* querier/lexer/lexer.go:187-192  the loop of readQuotedString
RECURSIVE readQuotedStringLoop(_)
readQuotedStringLoop(l) ==
    LET n == readChar(l)
    IN IF n.char = "\"" \/ n.char = NUL THEN n ELSE readQuotedStringLoop(n)

\* querier/lexer/lexer.go:182-195
readQuotedString(l) ==
    LET end == readQuotedStringLoop(l)
    IN [str |-> Slice(l.input, l.pos + 1, end.pos), l |-> end]

\* querier/lexer/lexer.go:47-88  the one- and two-rune tokens
Single ==
    ("=" :> "EQUAL") @@ ("~" :> "TILDE") @@ ("<" :> "LESS") @@ (">" :> "GREATER")
    @@ ("!" :> "NOT") @@ ("," :> "COMMA") @@ ("(" :> "LPAREN") @@ (")" :> "RPAREN")
    @@ (":" :> "COLON") @@ ("&" :> "AND") @@ ("|" :> "OR") @@ ("-" :> "MINUS")
Double == ("<" :> "LESSEQUAL") @@ (">" :> "GREATEREQUAL") @@ ("!" :> "NOTEQUAL")

\* querier/lexer/lexer.go:42-103  NextToken: the token, the lexer after it and
\* the position the token starts at
NextToken(l0) ==
    LET l == skipWhitespace(l0)
        c == l.char
        at(r) == [tok |-> r.tok, l |-> r.l, start |-> l.pos]
    IN IF c \in DOMAIN Double /\ peekChar(l) = "="
         THEN at([tok |-> Token(Double[c], c \o "="), l |-> readChar(readChar(l))])
       ELSE IF c \in DOMAIN Single
         THEN at([tok |-> Token(Single[c], c), l |-> readChar(l)])
       ELSE IF c = NUL
         THEN at([tok |-> Token("EOF", ""), l |-> readChar(l)])
       ELSE IF c = "\""
         THEN LET q == readQuotedString(l)
              IN at([tok |-> Token("STRING", q.str), l |-> readChar(q.l)])
       ELSE IF isLetter(c) THEN at(readIdentifier(l))
       ELSE IF isDigit(c) THEN at(readPossibleNumber(l))
       ELSE at([tok |-> Token("ILLEGAL", c), l |-> readChar(l)])

\* a caller asks for the next token until it has been handed EOF
HandedEOF == tokens # <<>> /\ tokens[Len(tokens)].Type = "EOF"
LexNextToken ==
    /\ ~HandedEOF
    /\ LET r == NextToken(lexer)
       IN /\ lexer' = r.l
          /\ tokens' = Append(tokens, [Type |-> r.tok.Type, Literal |-> r.tok.Literal,
                                       start |-> r.start])
    /\ UNCHANGED <<config, runPhase, parser, query, sqlOpts, search, jsonCall, tail,
                   sqlQuery, sqlResult, sqlSwapped>>
    /\ UNCHANGED <<smVars, engVars>>

\* ------------------------------------------------------------------ parser
\* querier/ast/ast.go:19-41  the zero value ast.Query{}
NilNode == [kind |-> "nil"]
NoQuery ==
    [Node |-> NilNode, Sort |-> <<>>, Start |-> ZeroTime, End |-> ZeroTime,
     Limit |-> 0, Cursor |-> ""]

\* querier/parser/parser.go:13-17  Parser before New; filter is ParseQuery's
\* local isParsingFilterSection, message what a panic carried
NoParser ==
    [curToken |-> NoToken, peekToken |-> NoToken, pc |-> "new", filter |-> FALSE,
     message |-> ""]

\* strconv.Atoi and time.Parse read runs of digits
DigitValue(r) == CHOOSE d \in 0..9 : Ch("0123456789", d + 1) = r
RECURSIVE StripZeros(_)
StripZeros(str) ==
    IF Len(str) > 1 /\ Ch(str, 1) = "0" THEN StripZeros(Tail(str)) ELSE str
RECURSIVE DigitsValue(_)
DigitsValue(str) ==
    IF str = "" THEN 0
    ELSE 10 * DigitsValue(SubSeq(str, 1, Len(str) - 1)) + DigitValue(Ch(str, Len(str)))
AllDigits(str) == str # "" /\ \A i \in 1..Len(str) : isDigit(Ch(str, i))

\* of two runs of digits of one length, a names the greater number
RECURSIVE DigitsGreater(_, _)
DigitsGreater(a, b) ==
    IF a = "" THEN FALSE
    ELSE IF Ch(a, 1) # Ch(b, 1) THEN DigitValue(Ch(a, 1)) > DigitValue(Ch(b, 1))
    ELSE DigitsGreater(Tail(a), Tail(b))
\* the number a run of digits names is greater than the one `limit` names
Exceeds(digits, limit) ==
    LET d == StripZeros(digits)
    IN Len(d) > Len(limit) \/ (Len(d) = Len(limit) /\ DigitsGreater(d, limit))

\* strconv.Atoi: an optional sign and decimal digits.  Anything else is
\* "invalid syntax" with the value 0; a number above math.MaxInt64 or below
\* math.MinInt64 is "value out of range", and the int returned with that
\* error (the nearest int64), which no caller reads, is not part of the result
Atoi(str) ==
    LET signed == str # "" /\ Ch(str, 1) \in {"+", "-"}
        neg == signed /\ Ch(str, 1) = "-"
        digits == IF signed THEN Tail(str) ELSE str
    IN IF ~AllDigits(digits) THEN [err |-> "invalid syntax", n |-> 0]
       ELSE IF Exceeds(digits, IF neg THEN "9223372036854775808"
                                      ELSE "9223372036854775807")
         THEN [err |-> "value out of range"]
       ELSE [err |-> "nil",
             n |-> (IF neg THEN -1 ELSE 1) * DigitsValue(StripZeros(digits))]

\* time.Parse: a field of `width` digits at `from` (counted from 1), or -1
Field(v, from, width) ==
    IF Len(v) >= from + width - 1 /\ AllDigits(SubSeq(v, from, from + width - 1))
      THEN DigitsValue(SubSeq(v, from, from + width - 1))
      ELSE -1
At(v, i) == IF i <= Len(v) THEN Ch(v, i) ELSE ""

LeapYear(y) == (y % 4 = 0 /\ y % 100 # 0) \/ y % 400 = 0
LeapsBefore(y) == ((y - 1) \div 4) - ((y - 1) \div 100) + ((y - 1) \div 400)
DaysIn(m, y) ==
    IF m = 2 THEN (IF LeapYear(y) THEN 29 ELSE 28)
    ELSE IF m \in {4, 6, 9, 11} THEN 30 ELSE 31
RECURSIVE DaysBeforeMonth(_, _)
DaysBeforeMonth(m, y) ==
    IF m = 1 THEN 0 ELSE DaysBeforeMonth(m - 1, y) + DaysIn(m - 1, y)
\* time.Date of a date and a time of day read in a zone `offset` seconds
\* east of UTC
Date(y, m, d, hh, mm, ss, nsec, offset) ==
    Instant(365 * (y - 1) + LeapsBefore(y) + DaysBeforeMonth(m, y) + (d - 1),
            hh * 3600 + mm * 60 + ss - offset, nsec)

\* time.Parse reads a fraction of a second after the seconds, whether the
\* layout has one or not: DigitRun counts the digits from `from` on, and
\* Nanoseconds is what the first nine of them come to
RECURSIVE DigitRun(_, _)
DigitRun(v, from) == IF isDigit(At(v, from)) THEN 1 + DigitRun(v, from + 1) ELSE 0
RECURSIVE Pow10(_)
Pow10(k) == IF k = 0 THEN 1 ELSE 10 * Pow10(k - 1)
Nanoseconds(digits) ==
    LET k == IF Len(digits) > 9 THEN 9 ELSE Len(digits)
    IN DigitsValue(SubSeq(digits, 1, k)) * Pow10(9 - k)

\* querier/parser/parser.go:120-140  parseDatetime tries the layouts RFC3339,
\* 2006-01-02T15:04:05, 2006-01-02T15:04 and 2006-01-02 with time.Parse (times
\* without a zone are UTC): the instant, or an error.  As time.Parse reads
\* them, the year has four digits, the month, day, minute and second two, the
\* hour one or two; a fraction of a second may follow the seconds; the zone
\* is Z or a sign, two digits up to 24, a colon and two digits up to 60.
parseDatetimeDateOnly(v) ==
    LET y == Field(v, 1, 4)
        m == Field(v, 6, 2)
        d == Field(v, 9, 2)
    IN IF /\ Len(v) = 10 /\ At(v, 5) = "-" /\ At(v, 8) = "-"
          /\ y >= 0 /\ m \in 1..12 /\ d >= 1 /\ d <= DaysIn(m, y)
         THEN [err |-> FALSE, t |-> Date(y, m, d, 0, 0, 0, 0, 0)]
         ELSE [err |-> TRUE, t |-> ZeroTime]
parseDatetime(v) ==
    LET n == Len(v)
        y == Field(v, 1, 4)
        m == Field(v, 6, 2)
        d == Field(v, 9, 2)
        hourWidth == IF isDigit(At(v, 13)) THEN 2 ELSE 1
        hh == Field(v, 12, hourWidth)
        minuteAt == 12 + hourWidth
        mm == Field(v, minuteAt + 1, 2)
        secondAt == minuteAt + 3
        ss == Field(v, secondAt + 1, 2)
        fractionAt == secondAt + 3
        fraction == IF At(v, fractionAt) \in {".", ","} /\ isDigit(At(v, fractionAt + 1))
                      THEN DigitRun(v, fractionAt + 1) ELSE 0
        zoneAt == IF fraction = 0 THEN fractionAt ELSE fractionAt + 1 + fraction
        zh == Field(v, zoneAt + 1, 2)
        zm == Field(v, zoneAt + 4, 2)
        dateOk == /\ At(v, 5) = "-" /\ At(v, 8) = "-"
                  /\ y >= 0 /\ m \in 1..12 /\ d >= 1 /\ d <= DaysIn(m, y)
        timeOk == /\ At(v, 11) = "T" /\ At(v, minuteAt) = ":"
                  /\ hh \in 0..23 /\ mm \in 0..59
        secOk == At(v, secondAt) = ":" /\ ss \in 0..59
        zulu == n = zoneAt /\ At(v, zoneAt) = "Z"
        zoneOk == /\ n = zoneAt + 5
                  /\ At(v, zoneAt) \in {"+", "-"} /\ At(v, zoneAt + 3) = ":"
                  /\ zh \in 0..24 /\ zm \in 0..60
        layout == IF dateOk /\ timeOk /\ secOk /\ (zulu \/ zoneOk) THEN "RFC3339"
                  ELSE IF dateOk /\ timeOk /\ secOk /\ n = zoneAt - 1
                    THEN "2006-01-02T15:04:05"
                  ELSE IF dateOk /\ timeOk /\ n = secondAt - 1 THEN "2006-01-02T15:04"
                  ELSE IF dateOk /\ n = 10 THEN "2006-01-02"
                  ELSE "none"
        seconds == layout \in {"RFC3339", "2006-01-02T15:04:05"}
        nsec == IF seconds /\ fraction > 0
                  THEN Nanoseconds(SubSeq(v, fractionAt + 1, fractionAt + fraction))
                  ELSE 0
        offset == IF layout = "RFC3339" /\ ~zulu
                    THEN (IF At(v, zoneAt) = "-" THEN -1 ELSE 1) * (zh * 3600 + zm * 60)
                    ELSE 0
    IN IF layout = "none" THEN [err |-> TRUE, t |-> ZeroTime]
       ELSE IF layout = "2006-01-02"
         THEN [err |-> FALSE, t |-> Date(y, m, d, 0, 0, 0, 0, 0)]
       ELSE [err |-> FALSE,
             t |-> Date(y, m, d, hh, mm, IF seconds THEN ss ELSE 0, nsec, offset)]

\* one statement after another: Rest runs on the state the statement before
\* it left
Then(st, Rest(_)) == CHOOSE after \in {Rest(before) : before \in {st}} : TRUE

\* The parser at work: st = [p, l, q, read]: the Parser, its Lexer, the query
\* and the tokens read from the lexer so far.
\* querier/parser/parser.go:30-33
nextToken(st) ==
    Then(NextToken(st.l), LAMBDA r :
    [st EXCEPT !.p.curToken = st.p.peekToken,
               !.p.peekToken = r.tok,
               !.l = r.l,
               !.read = Append(st.read, r.tok)])

panic(st, message) == [st EXCEPT !.p.pc = "panic", !.p.message = message]

\* querier/parser/parser.go:77-118
parseTimestamp(st) ==
    IF st.p.peekToken.Type # "EQUAL"
      THEN panic(st, "this is not ok. only = comes after timestamp")
    ELSE Then(nextToken(st), LAMBDA s1 :
    IF s1.p.peekToken.Type # "STRING"
      THEN panic(s1, "this is not ok. only string comes after =")
    ELSE Then(nextToken(s1), LAMBDA s2 :
    Then(parseDatetime(s2.p.curToken.Literal), LAMBDA start :
    IF start.err THEN panic(s2, "failed to parse datetime")
    ELSE Then([s2 EXCEPT !.q.Start = start.t], LAMBDA s3 :
    IF s3.p.peekToken.Type # "COMMA" THEN s3
    ELSE Then(nextToken(s3), LAMBDA s4 :
    IF s4.p.peekToken.Type # "STRING"
      THEN panic(s4, "this is not ok. only string comes after ,")
    ELSE Then(nextToken(s4), LAMBDA s5 :
    Then(parseDatetime(s5.p.curToken.Literal), LAMBDA end :
    IF end.err THEN panic(s5, "failed to parse datetime")
    ELSE nextToken([s5 EXCEPT !.q.End = end.t]))))))))

\* querier/parser/parser.go:142-163
parseLimit(st) ==
    IF st.p.peekToken.Type # "EQUAL"
      THEN panic(st, "this is not ok. only = comes after limit")
    ELSE Then(nextToken(st), LAMBDA s1 :
    IF s1.p.peekToken.Type # "INT"
      THEN panic(s1, "this is not ok. only int comes after =")
    ELSE Then(nextToken(s1), LAMBDA s2 :
    Then(Atoi(s2.p.curToken.Literal), LAMBDA limit :
    IF limit.err # "nil" THEN panic(s2, limit.err)
    ELSE nextToken([s2 EXCEPT !.q.Limit = limit.n]))))

\* querier/parser/parser.go:165-183
parseCursor(st) ==
    IF st.p.peekToken.Type # "EQUAL"
      THEN panic(st, "this is not ok. only = comes after cursor")
    ELSE Then(nextToken(st), LAMBDA s1 :
    IF s1.p.peekToken.Type # "STRING"
      THEN panic(s1, "this is not ok. only string comes after =")
    ELSE Then(nextToken(s1), LAMBDA s2 :
    nextToken([s2 EXCEPT !.q.Cursor = s2.p.curToken.Literal])))

\* querier/parser/parser.go:62-75  the switch on the current token's literal
parseControlStatement(st) ==
    CASE st.p.curToken.Literal = "timestamp" -> parseTimestamp(st)
      [] st.p.curToken.Literal = "limit" -> parseLimit(st)
      [] st.p.curToken.Literal = "cursor" -> parseCursor(st)
      [] st.p.curToken.Literal = "sort" -> st
      [] OTHER -> panic(st, "unexpected token")

Parsing == [p |-> parser, l |-> lexer, q |-> query, read |-> tokens]
Parsed(st) ==
    /\ parser' = st.p
    /\ lexer' = st.l
    /\ query' = st.q
    /\ tokens' = st.read
    /\ UNCHANGED <<config, runPhase, sqlOpts, search, jsonCall, tail,
                   sqlQuery, sqlResult, sqlSwapped>>
    /\ UNCHANGED <<smVars, engVars>>

\* querier/parser/parser.go:19-28  parser.New reads two tokens;
\* querier/parser/parser.go:36-38  ParseQuery starts with an empty query
ParserNew ==
    /\ parser.pc = "new"
    /\ \E st \in {Then(nextToken(Parsing), LAMBDA s1 : nextToken(s1))} :
          Parsed([st EXCEPT !.p.pc = "parsing"])

\* querier/parser/parser.go:40-53  one turn of ParseQuery's loop: the colon
\* opens the filter section, a token of the control section is handed to
\* parseControlStatement, and the next token is read
ParseStatementStep ==
    /\ parser.pc = "parsing"
    /\ parser.curToken.Type # "EOF"
    /\ \E st \in {[Parsing EXCEPT
                     !.p.filter = parser.filter \/ parser.curToken.Type = "COLON"]} :
       \E after \in {IF st.p.filter THEN st ELSE parseControlStatement(st)} :
       \E next \in {IF after.p.pc = "panic" THEN after ELSE nextToken(after)} :
          Parsed(next)

\* querier/parser/parser.go:40, 55  the loop ends at EOF and the query is returned
ParseReturn ==
    /\ parser.pc = "parsing"
    /\ parser.curToken.Type = "EOF"
    /\ Parsed([Parsing EXCEPT !.p.pc = "done"])

\* ------------------------------------------------------------- SQL builder
\* querier/ast/ast.go:54-59
GetQueryDirection(r) ==
    IF r.End # ZeroTime /\ Before(r.End, r.Start) THEN "backward" ELSE "forward"

\* strings.Join
RECURSIVE Join(_, _)
Join(parts, sep) ==
    IF parts = <<>> THEN ""
    ELSE IF Len(parts) = 1 THEN parts[1]
    ELSE parts[1] \o sep \o Join(Tail(parts), sep)

\* fmt's %d
RECURSIVE FormatNat(_)
FormatNat(n) ==
    IF n < 10 THEN Ch("0123456789", n + 1)
    ELSE FormatNat(n \div 10) \o Ch("0123456789", (n % 10) + 1)
FormatInt(n) == IF n < 0 THEN "-" \o FormatNat(0 - n) ELSE FormatNat(n)

\* querier/sqlbuilder.go:15-33  the options of the builder: no sort or filter
\* allow-list of its own and no select columns
SQLOpts ==
    [AllowedSortFields |-> <<>>, AllowedFilterFieldsRegex |-> "nil",
     TableName |-> "logs", SelectColumns |-> <<>>]
\* the same with the filter allow-list of storage/clickhouse.go:18
SQLOptsSort == [SQLOpts EXCEPT !.AllowedSortFields = <<"id", "timestamp">>]
SQLOptsRegex == [SQLOpts EXCEPT !.AllowedFilterFieldsRegex = "allowedFieldsRegex"]
\* storage/clickhouse.go:206-231  the options ClickHouseStorage.buildQuery works with
SQLOptsStore ==
    [SQLOptsRegex EXCEPT !.TableName = "processed_logs",
                         !.SelectColumns = <<"id", "source", "timestamp", "level",
                                             "message", "metadata">>]

SeqContains(seq, x) == \E i \in DOMAIN seq : seq[i] = x

\* querier/node.go:10-76  the nodes of the query tree; a nil interface is
\* NilNode and a node of any other type OtherNode
AndNode(children) == [kind |-> "and", Children |-> children]
OrNode(children) == [kind |-> "or", Children |-> children]
NotNode(child) == [kind |-> "not", Child |-> child]
ComparisonNode(fieldName, value, operator) ==
    [kind |-> "comparison", FieldName |-> fieldName, Value |-> value,
     Operator |-> operator]
OtherNode == [kind |-> "other"]
\* a Value: nil, or what the field is compared with
NilValue == [isNil |-> TRUE, v |-> ""]
Value(v) == [isNil |-> FALSE, v |-> v]

\* storage/clickhouse.go:18  MatchString of the pattern
\* ^(id|level|timestamp|message|source|metadata(\.("[^"]+"|[a-zA-Z0-9_]+))?)$
WordRunes == Runes("abcdefghijklmnopqrstuvwxyzABCDEFGHIJKLMNOPQRSTUVWXYZ0123456789_")
MatchAllowedFields(fieldName) ==
    \/ fieldName \in {"id", "level", "timestamp", "message", "source", "metadata"}
    \/ /\ Len(fieldName) > 9
       /\ SubSeq(fieldName, 1, 9) = "metadata."
       /\ LET rest == SubSeq(fieldName, 10, Len(fieldName))
          IN \/ Runes(rest) \subseteq WordRunes
             \/ /\ Len(rest) >= 3
                /\ Ch(rest, 1) = "\"" /\ Ch(rest, Len(rest)) = "\""
                /\ "\"" \notin Runes(SubSeq(rest, 2, Len(rest) - 1))
MatchString(regex, fieldName) == MatchAllowedFields(fieldName)

\* querier/node.go:38-61 and querier/sqlbuilder.go:252-273  a ComparisonOperator
\* is a uint8, OperatorEq = 0 up to OperatorIn = 8; OperatorSQL[operator + 1] is
\* the SQL operator the switch gives it
OperatorSQL == <<"=", "!=", ">", "<", ">=", "<=", "LIKE", "ILIKE", "IN">>
HasOperatorSQL(operator) == operator + 1 \in DOMAIN OperatorSQL

NodeError(message) == [clause |-> "", args |-> <<>>, err |-> message]
NodeSQL(clause, args) == [clause |-> clause, args |-> args, err |-> "nil"]

\* querier/sqlbuilder.go:238-276
formatComparisonUnchecked(opts, n) ==
    IF n.FieldName = "" \/ n.Value.isNil
      THEN NodeError("invalid comparison node: missing field name or value")
    ELSE IF ~HasOperatorSQL(n.Operator)
      THEN NodeError("unsupported operator: " \o FormatInt(n.Operator))
    ELSE NodeSQL(n.FieldName \o " " \o OperatorSQL[n.Operator + 1] \o " ?", <<n.Value>>)
formatComparison(opts, n) ==
    IF n.FieldName = "" \/ n.Value.isNil
      THEN NodeError("invalid comparison node: missing field name or value")
    ELSE IF /\ opts.AllowedFilterFieldsRegex # "nil"
            /\ ~MatchString(opts.AllowedFilterFieldsRegex, n.FieldName)
      THEN NodeError("invalid field name: " \o n.FieldName)
    ELSE IF ~HasOperatorSQL(n.Operator)
      THEN NodeError("unsupported operator: " \o FormatInt(n.Operator))
    ELSE NodeSQL(n.FieldName \o " " \o OperatorSQL[n.Operator + 1] \o " ?", <<n.Value>>)

RECURSIVE parseQueryNode(_, _)
RECURSIVE joinLoop(_, _, _, _)

\* querier/sqlbuilder.go:216-227  the loop of joinNodes over the children
joinLoop(opts, children, parts, args) ==
    IF children = <<>> THEN [parts |-> parts, args |-> args, err |-> "nil"]
    ELSE Then(parseQueryNode(opts, Head(children)), LAMBDA r :
         IF r.err # "nil" THEN [parts |-> <<>>, args |-> <<>>, err |-> r.err]
         ELSE IF r.clause # ""
           THEN joinLoop(opts, Tail(children), Append(parts, r.clause), args \o r.args)
         ELSE joinLoop(opts, Tail(children), parts, args))

\* querier/sqlbuilder.go:211-235
joinNodes(opts, children, operator, args) ==
    IF Len(children) = 0 THEN NodeSQL("", <<>>)
    ELSE Then(joinLoop(opts, children, <<>>, args), LAMBDA r :
         IF r.err # "nil" THEN NodeError(r.err)
         ELSE IF Len(r.parts) = 0 THEN NodeSQL("", <<>>)
         ELSE NodeSQL("(" \o Join(r.parts, " " \o operator \o " ") \o ")", r.args))

\* querier/sqlbuilder.go:168-208
parseQueryNode(opts, node) ==
    CASE node.kind = "nil" -> NodeSQL("", <<>>)
      [] node.kind = "and" -> joinNodes(opts, node.Children, "AND", <<>>)
      [] node.kind = "or" -> joinNodes(opts, node.Children, "OR", <<>>)
      [] node.kind = "not" ->
            Then(parseQueryNode(opts, node.Child), LAMBDA r :
            IF r.err # "nil" THEN NodeError(r.err)
            ELSE IF r.clause = "" THEN NodeSQL("", <<>>)
            ELSE NodeSQL("NOT (" \o r.clause \o ")", r.args))
      [] node.kind = "comparison" -> formatComparison(opts, node)
      [] OTHER -> NodeError("unknown query node type")

\* querier/sqlbuilder.go:90-98  the lower and the upper bound
timeBoundsAsGiven(start, end) == [sTime |-> start, eTime |-> end]
timeBounds(start, end) ==
    IF Before(start, end) THEN [sTime |-> start, eTime |-> end]
                   ELSE [sTime |-> end, eTime |-> start]

\* querier/sqlbuilder.go:84-116
buildWhereClause(opts, root, start, end) ==
    LET node == parseQueryNode(opts, root)
        b == timeBounds(start, end)
        parts1 == <<"timestamp >= ?">>
        args1 == <<b.sTime>>
        parts2 == IF b.eTime # ZeroTime THEN Append(parts1, "timestamp <= ?") ELSE parts1
        args2 == IF b.eTime # ZeroTime THEN Append(args1, b.eTime) ELSE args1
        parts3 == IF node.clause # "" THEN Append(parts2, node.clause) ELSE parts2
        args3 == IF node.clause # "" THEN args2 \o node.args ELSE args2
    IN IF node.err # "nil" THEN [clause |-> "", args |-> <<>>, err |-> node.err]
       ELSE [clause |-> Join(parts3, " AND "), args |-> args3, err |-> "nil"]

\* querier/sqlbuilder.go:123-126
timeDirectionByOrder(start, end) == IF Before(end, start) THEN "DESC" ELSE "ASC"
timeDirection(start, end) ==
    IF end # ZeroTime /\ Before(end, start) THEN "DESC" ELSE "ASC"

\* querier/sqlbuilder.go:129-132
allowedFieldsConfigured(opts) == opts.AllowedSortFields
allowedFields(opts) ==
    IF Len(opts.AllowedSortFields) = 0 THEN <<"source", "level", "timestamp">>
    ELSE opts.AllowedSortFields

\* querier/sqlbuilder.go:141-152  one sort field
sortPart(field) ==
    field.Name \o " " \o (IF field.IsDescending THEN "DESC" ELSE "ASC")

\* querier/sqlbuilder.go:120-165  (the error text without the back quotes around
\* the field name, which a string here cannot hold)
buildOrderByClause(opts, start, end, sortFields) ==
    LET dir == timeDirection(start, end)
        bad == {i \in DOMAIN sortFields :
                  ~SeqContains(allowedFields(opts), sortFields[i].Name)}
        first == CHOOSE i \in bad : \A j \in bad : i <= j
        parts == [i \in DOMAIN sortFields |-> sortPart(sortFields[i])]
        hasTimestamp == \E i \in DOMAIN sortFields : sortFields[i].Name = "timestamp"
        all == IF hasTimestamp THEN parts ELSE Append(parts, "timestamp " \o dir)
    IN IF Len(sortFields) = 0
         THEN [clause |-> "ORDER BY timestamp " \o dir, err |-> "nil"]
       ELSE IF bad # {}
         THEN [clause |-> "",
               err |-> "field " \o sortFields[first].Name \o " is not allowed for sorting"]
       ELSE [clause |-> "ORDER BY " \o Join(all, ", "), err |-> "nil"]

\* what Build returns: BuildResult and the error, with the two clauses it
\* put into the query
NoSQL ==
    [built |-> FALSE, Query |-> "", Args |-> <<>>, err |-> "nil",
     whereClause |-> "", orderByClause |-> ""]

\* querier/sqlbuilder.go:53-81
Build(opts, q) ==
    LET where == buildWhereClause(opts, q.Node, q.Start, q.End)
        orderBy == buildOrderByClause(opts, q.Start, q.End, q.Sort)
        limitClause == "LIMIT " \o FormatInt(q.Limit)
        selectCols == IF Len(opts.SelectColumns) = 0 THEN "*"
                      ELSE Join(opts.SelectColumns, ", ")
    IN IF where.err # "nil"
         THEN [NoSQL EXCEPT !.built = TRUE,
                            !.err = "failed to build where clause: " \o where.err]
       ELSE IF orderBy.err # "nil"
         THEN [NoSQL EXCEPT !.built = TRUE,
                            !.err = "failed to build order by clause: " \o orderBy.err]
       ELSE [built |-> TRUE,
             Query |-> "SELECT " \o selectCols \o " FROM " \o opts.TableName
                       \o " WHERE " \o where.clause \o " " \o orderBy.clause
                       \o " " \o limitClause,
             Args |-> where.args, err |-> "nil",
             whereClause |-> where.clause, orderByClause |-> orderBy.clause]

\* the query with its time range turned around
Exchanged(q) == [q EXCEPT !.Start = q.End, !.End = q.Start]

\* querier/sqlbuilder.go:53-81  Build is called on the query
SqlBuild ==
    /\ ~sqlResult.built
    /\ sqlResult' = Build(sqlOpts, sqlQuery)
    /\ UNCHANGED <<config, runPhase, lexer, tokens, parser, query, sqlOpts, search, jsonCall, tail,
                   sqlQuery, sqlSwapped>>
    /\ UNCHANGED <<smVars, engVars>>

\* querier/sqlbuilder.go:53-81  Build is called on the exchanged query
SqlBuildExchanged ==
    /\ ~sqlSwapped.built
    /\ sqlSwapped' = Build(sqlOpts, Exchanged(sqlQuery))
    /\ UNCHANGED <<config, runPhase, lexer, tokens, parser, query, sqlOpts, search, jsonCall, tail,
                   sqlQuery, sqlResult>>
    /\ UNCHANGED <<smVars, engVars>>

\* ------------------------------------------------------------ search request
\* querier/ast/ast.go:61-79  Query.Validate; field names the entry of the
\* FieldErrorsMetadata, "" when the query is valid
LimitMin == 1
LimitMax == 1000
BadInput(field) == [err |-> "BadInput", field |-> field]
Valid == [err |-> "nil", field |-> ""]

Validate(r) ==
    IF r.Limit > LimitMax THEN BadInput("limit")
    ELSE IF r.Limit < LimitMin THEN BadInput("limit")
    ELSE IF r.Start = ZeroTime THEN BadInput("start")
    ELSE Valid

\* the statuses of net/http that the handlers answer with
StatusOK == 200
StatusBadRequest == 400
StatusForbidden == 403
StatusNotFound == 404
StatusUnprocessableEntity == 422
StatusInternalServerError == 500

\* the body of a request, by what json.Decoder makes of it: "query" decodes
\* into the ast.Query held in query; "type" holds a value of the wrong type
\* for the member named field (field "" when the body is no object at all);
\* "value" holds for the member field a value that the member's own
\* UnmarshalJSON rejects (a start that is no RFC 3339 string); "unknown"
\* holds the key field that the Query has no member for; "syntax" is badly
\* formed, "truncated" ends inside a value, "empty" holds nothing, "extra"
\* holds a second value, "toolarge" is longer than maxBytes
QueryBody(q) == [kind |-> "query", query |-> q, field |-> ""]
OtherBody(kind, field) == [kind |-> kind, query |-> NoQuery, field |-> field]

\* fault.New(code, ...) with and without FieldErrorsMetadata, an error that
\* is no fault, nil, and the panic of readJson
Fault(code, fields, plain) == [code |-> code, fields |-> fields, plain |-> plain]
BadInputFields(fields) == Fault("BadInput", fields, FALSE)
BadInputPlain == Fault("BadInput", {}, TRUE)
Unknown == Fault("Unknown", {}, TRUE)
NoError == Fault("nil", {}, TRUE)
Panic == Fault("panic", {}, TRUE)

\* api/helper.go:21-80  readJson: the error it returns; dst is "pointer" for
\* a destination json can decode into and "nil" for one it cannot.  Decode
\* reads the value before it looks at the destination, and looks at the
\* destination before it fills any member.
readJson(dst, body) ==
    IF body.kind = "syntax" THEN BadInputPlain
    ELSE IF body.kind = "truncated" THEN BadInputPlain
    ELSE IF body.kind = "empty" THEN BadInputPlain
    ELSE IF body.kind = "toolarge" THEN BadInputPlain
    ELSE IF dst = "nil" THEN Panic
    ELSE IF body.kind = "type"
      THEN IF body.field # "" THEN BadInputFields({body.field}) ELSE BadInputPlain
    ELSE IF body.kind = "unknown" THEN BadInputFields({body.field})
    ELSE IF body.kind = "value" THEN Unknown
    ELSE IF body.kind = "extra" THEN BadInputPlain
    ELSE NoError

\* a search request: pc is the handler's position, body what was posted,
\* status the response status, fields the field names of a field-errors
\* response, executed whether the statement was handed to the store's
\* connection
NoSearch ==
    [pc |-> "idle", body |-> OtherBody("empty", ""), status |-> 0, fields |-> {},
     executed |-> FALSE]
Received(body) == [NoSearch EXCEPT !.pc = "received", !.body = body]
Responded(req, status, fields, executed) ==
    [req EXCEPT !.pc = "responded", !.status = status, !.fields = fields,
                !.executed = executed]

\* api/errors.go:10-59  handleError: the response an error is answered with
handleError(req, err, executed) ==
    IF err.code = "BadInput" /\ ~err.plain
      THEN Responded(req, StatusUnprocessableEntity, err.fields, executed)
    ELSE IF err.code = "BadInput"
      THEN Responded(req, StatusBadRequest, {}, executed)
    ELSE IF err.code = "NotFound"
      THEN Responded(req, StatusNotFound, {}, executed)
    ELSE IF err.code = "PermissionDenied"
      THEN Responded(req, StatusForbidden, {}, executed)
    ELSE Responded(req, StatusInternalServerError, {}, executed)

\* storage/clickhouse.go:177-204  ClickHouseStorage.Query: the statement is
\* built from the query and handed to the connection; connFails is whether
\* conn.Query or the scan of its rows returns an error
StorageQuery(opts, q, connFails) ==
    LET built == Build(opts, q)
    IN IF built.err # "nil" THEN [built |-> built, executed |-> FALSE, err |-> TRUE]
       ELSE [built |-> built, executed |-> TRUE, err |-> connFails]

\* api/handler.go:10-42  searchLogsHandler: the body is decoded into logQuery
\* (sqlQuery), an error of readJson is answered and ends the request, the
\* query goes to storage.Query as it was decoded
SearchLogs ==
    /\ search.pc = "received"
    /\ \E connFails \in BOOLEAN :
       \E decoded \in {readJson("pointer", search.body)} :
          IF decoded # NoError
          THEN /\ search' = handleError(search, decoded, FALSE)
               /\ UNCHANGED <<sqlQuery, sqlResult>>
          ELSE \E resp \in {StorageQuery(sqlOpts, search.body.query, connFails)} :
                  /\ sqlQuery' = search.body.query
                  /\ sqlResult' = resp.built
                  /\ search' = IF resp.err
                               THEN handleError(search, Unknown, resp.executed)
                               ELSE Responded(search, StatusOK, {}, resp.executed)
    /\ UNCHANGED <<config, runPhase, lexer, tokens, parser, query, sqlOpts, jsonCall, tail,
                   sqlSwapped>>
    /\ UNCHANGED <<smVars, engVars>>

\* ------------------------------------------------------------ processor call
\* one call of JsonLogProcessor.Process: record is the argument, result what
\* the call returned
NoJsonCall == [record |-> ZeroRecord, called |-> FALSE, result |-> Failed(ZeroRecord)]

\* processor/json.go:112-153  Process is called on the record
JsonProcessCall ==
    /\ ~jsonCall.called
    /\ jsonCall' = [jsonCall EXCEPT !.called = TRUE,
                                    !.result = JsonProcess(jsonCall.record)]
    /\ UNCHANGED <<config, runPhase, lexer, tokens, parser, query, sqlOpts, search, tail,
                   sqlQuery, sqlResult, sqlSwapped>>
    /\ UNCHANGED <<smVars, engVars>>

\* ------------------------------------------------------------ file tailing
\* source/file.go:44-118  FileLogSource.Provide on the bytes of the file.
\* pc is the position of Provide: "open" before os.Open, "seek" before
\* file.Seek, "watch" before the watcher is made and added, "select" in the
\* select of the loop, "read" before reader.ReadBytes, "send" in the send to
\* the output channel, "returned" after the return.  before is what the file
\* held when Provide opened it, written what was appended since, unread the
\* bytes of the file behind the offset of the file, buf the bytes read from
\* the file that the reader still holds, events the events waiting in the
\* watcher, touched the events that were not writes, cancelled whether the
\* context is done, line and readErr the results of the last ReadBytes, err
\* the error returned, emitted the RawData of the records sent to the output
\* channel, in order.
NoTail ==
    [pc |-> "idle", before |-> "", written |-> "", unread |-> "", buf |-> "",
     events |-> <<>>, touched |-> 0, cancelled |-> FALSE, line |-> "",
     readErr |-> "nil", err |-> "nil", emitted |-> <<>>]

\* the position of the first newline of bytes from at on, 0 when there is none
RECURSIVE IndexNewline(_, _)
IndexNewline(bytes, at) ==
    IF at > Len(bytes) THEN 0
    ELSE IF SubSeq(bytes, at, at) = "\n" THEN at
    ELSE IndexNewline(bytes, at + 1)

\* bufio.Reader.ReadBytes('\n') on a reader that holds buf over a file with
\* the bytes file behind its offset: the bytes up to and including the first
\* newline; when the reader holds no newline it reads the file, and returns
\* what it holds with the error of the read (fails) or, at the end of the
\* file, with io.EOF
ReadBytes(buf, file, fails) ==
    LET held == IndexNewline(buf, 1)
        all == buf \o file
        at == IndexNewline(all, 1)
    IN IF held # 0
         THEN [line |-> SubSeq(buf, 1, held), buf |-> SubSeq(buf, held + 1, Len(buf)),
               file |-> file, err |-> "nil"]
       ELSE IF fails
         THEN [line |-> buf, buf |-> "", file |-> file, err |-> "read"]
       ELSE IF at = 0
         THEN [line |-> all, buf |-> "", file |-> "", err |-> "EOF"]
       ELSE [line |-> SubSeq(all, 1, at), buf |-> SubSeq(all, at + 1, Len(all)),
             file |-> "", err |-> "nil"]

\* source/file.go:45-49  os.Open, which may fail
TailOpen ==
    /\ tail.pc = "open"
    /\ \E opened \in BOOLEAN :
          tail' = IF opened THEN [tail EXCEPT !.pc = "seek"]
                  ELSE [tail EXCEPT !.pc = "returned", !.err = "cannot open file"]
    /\ UNCHANGED <<config, runPhase, lexer, tokens, parser, query, sqlOpts, search, jsonCall,
                   sqlQuery, sqlResult, sqlSwapped>>
    /\ UNCHANGED <<smVars, engVars>>

\* source/file.go:53-56  file.Seek(0, io.SeekEnd), which may fail: the offset
\* is the end of the file as it is now
TailSeek ==
    /\ tail.pc = "seek"
    /\ \E sought \in BOOLEAN :
          tail' = IF sought THEN [tail EXCEPT !.pc = "watch", !.unread = ""]
                  ELSE [tail EXCEPT !.pc = "returned", !.err = "seek"]
    /\ UNCHANGED <<config, runPhase, lexer, tokens, parser, query, sqlOpts, search, jsonCall,
                   sqlQuery, sqlResult, sqlSwapped>>
    /\ UNCHANGED <<smVars, engVars>>

\* source/file.go:58-68  fsnotify.NewWatcher and watcher.Add, each of which
\* may fail, and the reader
TailWatch ==
    /\ tail.pc = "watch"
    /\ \E err \in {"nil", "cannot create watcher", "cannot add file to watcher"} :
          tail' = IF err = "nil" THEN [tail EXCEPT !.pc = "select"]
                  ELSE [tail EXCEPT !.pc = "returned", !.err = err]
    /\ UNCHANGED <<config, runPhase, lexer, tokens, parser, query, sqlOpts, search, jsonCall,
                   sqlQuery, sqlResult, sqlSwapped>>
    /\ UNCHANGED <<smVars, engVars>>

\* the file is watched once watcher.Add has returned and until Provide returns
Watched == tail.pc \in {"select", "read", "send"}
\* the file is open and Provide has not returned
Opened == tail.pc \in {"seek", "watch", "select", "read", "send"}

\* another process appends chunk to the file; the watcher, when there is one,
\* queues a write event
TailAppend(chunk) ==
    /\ Opened
    /\ Len(tail.written) + Len(chunk) <= MaxWritten
    /\ tail' = [tail EXCEPT !.written = @ \o chunk,
                            !.unread = IF tail.pc = "seek" THEN @ ELSE @ \o chunk,
                            !.events = IF Watched THEN Append(@, "write") ELSE @]
    /\ UNCHANGED <<config, runPhase, lexer, tokens, parser, query, sqlOpts, search, jsonCall,
                   sqlQuery, sqlResult, sqlSwapped>>
    /\ UNCHANGED <<smVars, engVars>>

\* another process changes the file without writing to it; the watcher
\* queues an event that is not a write
TailTouch ==
    /\ Watched
    /\ tail.touched < MaxTouches
    /\ tail' = [tail EXCEPT !.touched = @ + 1, !.events = Append(@, "other")]
    /\ UNCHANGED <<config, runPhase, lexer, tokens, parser, query, sqlOpts, search, jsonCall,
                   sqlQuery, sqlResult, sqlSwapped>>
    /\ UNCHANGED <<smVars, engVars>>

\* the context of Provide is cancelled
TailCancel ==
    /\ Opened
    /\ ~tail.cancelled
    /\ tail' = [tail EXCEPT !.cancelled = TRUE]
    /\ UNCHANGED <<config, runPhase, lexer, tokens, parser, query, sqlOpts, search, jsonCall,
                   sqlQuery, sqlResult, sqlSwapped>>
    /\ UNCHANGED <<smVars, engVars>>

\* source/file.go:72-73  case <-ctx.Done(): return nil
TailDone ==
    /\ tail.pc = "select"
    /\ tail.cancelled
    /\ tail' = [tail EXCEPT !.pc = "returned"]
    /\ UNCHANGED <<config, runPhase, lexer, tokens, parser, query, sqlOpts, search, jsonCall,
                   sqlQuery, sqlResult, sqlSwapped>>
    /\ UNCHANGED <<smVars, engVars>>

\* source/file.go:75-91  case event, ok := <-watcher.Events: a write event
\* starts the read loop, any other event is dropped
TailEvent ==
    /\ tail.pc = "select"
    /\ tail.events # <<>>
    /\ tail' = [tail EXCEPT !.events = Tail(@),
                            !.pc = IF Head(tail.events) = "write" THEN "read" ELSE "select"]
    /\ UNCHANGED <<config, runPhase, lexer, tokens, parser, query, sqlOpts, search, jsonCall,
                   sqlQuery, sqlResult, sqlSwapped>>
    /\ UNCHANGED <<smVars, engVars>>

\* source/file.go:75-79, 111-115  the watcher closes its channels (return
\* nil) or reports an error (return err)
TailWatcherEnd ==
    /\ tail.pc = "select"
    /\ \E err \in {"nil", "watcher"} :
          tail' = [tail EXCEPT !.pc = "returned", !.err = err]
    /\ UNCHANGED <<config, runPhase, lexer, tokens, parser, query, sqlOpts, search, jsonCall,
                   sqlQuery, sqlResult, sqlSwapped>>
    /\ UNCHANGED <<smVars, engVars>>

\* source/file.go:93-109 without line 101  one turn of the read loop: the
\* bytes read, when there are any, are to be sent; without bytes the loop
\* ends at the end of the file and Provide returns the error of the read
TailRead ==
    /\ tail.pc = "read"
    /\ \E fails \in BOOLEAN :
       \E read \in {ReadBytes(tail.buf, tail.unread, fails)} :
          tail' = [tail EXCEPT !.buf = read.buf, !.unread = read.file,
                               !.line = read.line, !.readErr = read.err,
                               !.err = IF read.line = "" /\ read.err = "read"
                                       THEN "read" ELSE @,
                               !.pc = IF read.line # "" THEN "send"
                                      ELSE IF read.err = "EOF" THEN "select"
                                      ELSE "returned"]
    /\ UNCHANGED <<config, runPhase, lexer, tokens, parser, query, sqlOpts, search, jsonCall,
                   sqlQuery, sqlResult, sqlSwapped>>
    /\ UNCHANGED <<smVars, engVars>>

\* source/file.go:101-108  logChan <- l returns when the record is taken;
\* then the loop ends at the end of the file, Provide returns the error of
\* the read, or the loop reads again
TailSend ==
    /\ tail.pc = "send"
    /\ tail' = [tail EXCEPT !.emitted = Append(@, tail.line), !.line = "",
                            !.err = IF tail.readErr = "read" THEN "read" ELSE @,
                            !.pc = IF tail.readErr = "EOF" THEN "select"
                                   ELSE IF tail.readErr = "read" THEN "returned"
                                   ELSE "read"]
    /\ UNCHANGED <<config, runPhase, lexer, tokens, parser, query, sqlOpts, search, jsonCall,
                   sqlQuery, sqlResult, sqlSwapped>>
    /\ UNCHANGED <<smVars, engVars>>

\* engine/source.go:52-60  newStorageManager
InitStorage(sizes, intervals) ==
    /\ bufferMaxSize \in sizes
    /\ flushInterval \in intervals
    /\ processedBuffer = <<>>
    /\ smWg = 0
    /\ flights = <<>>
    /\ smPc = "select"
    /\ smToFlush = <<>>
    /\ ctxDone = FALSE
    /\ addPc = [a \in Adders |-> "idle"]
    /\ addToFlush = [a \in Adders |-> <<>>]
    /\ nAdded = 0
    /\ calls = <<>>
    /\ ticks = 0
    /\ tickSeen = <<>>
    /\ cancelSeen = NoCancel
    /\ finalSeen = NoSeen
    /\ returnSeen = 0

\* engine/orchestrator.go:48-78, 98-124  Run and consumeLogs have started the
\* goroutines; nothing has been read or sent
InitEngine ==
    /\ srcPc = [s \in SourceKeys |-> "start"]
    /\ srcUnread = [s \in SourceKeys |-> NoUnread]
    /\ srcLine = [s \in SourceKeys |-> ZeroRecord]
    /\ nLines = 0
    /\ rawLogs = <<>>
    /\ rawClosed = FALSE
    /\ wPc = [w \in Workers |-> "select"]
    /\ wRec = [w \in Workers |-> [raw |-> ZeroRecord, trace |-> <<>>, out |-> ZeroRecord]]
    /\ nextId = 0
    /\ pmReturned = FALSE
    /\ results = <<>>
    /\ resultsClosed = FALSE
    /\ runPc = "loop"
    /\ runErr = "none"
    /\ sent = <<>>

\* nothing of Run's start or of the querier is in use
InitIdleRun == config = NoConfig /\ runPhase = "new"
InitIdleLexer == lexer = LexerNew("") /\ tokens = <<>>
InitIdleParser == parser = NoParser /\ query = NoQuery
InitIdleSQL ==
    sqlOpts = SQLOpts /\ sqlQuery = NoQuery /\ sqlResult = NoSQL /\ sqlSwapped = NoSQL
InitIdleSearch == search = NoSearch
InitIdleJson == jsonCall = NoJsonCall
InitIdleTail == tail = NoTail
InitIdleMore == InitIdleSearch /\ InitIdleJson /\ InitIdleTail
InitIdle ==
    InitIdleRun /\ InitIdleLexer /\ InitIdleParser /\ InitIdleSQL /\ InitIdleMore

\* the storage buffer alone, for every size and interval, with its callers
InitSM == InitStorage(0..MaxBufSize, {0, 1}) /\ InitEngine /\ InitIdle

NextSM ==
    \/ \E a \in Adders, n \in 0..2 : AddCall(a, n)
    \/ \E a \in Adders : AddDispatch(a)
    \/ SmTick
    \/ SmTickDispatch
    \/ SmDone
    \/ SmFinalDispatch
    \/ SmReturn
    \/ Cancel
    \/ \E i \in DOMAIN flights : FlushFinish(i)

SpecSM == InitSM /\ [][NextSM]_vars

\* the engine as orchestrator.go runs it: sources, aggregator, the workers
\* of Engine.processorWorker, the goroutine that closes results and Run's loop
InitRun == InitStorage({0}, {0}) /\ InitEngine /\ InitIdle

RunStep(lines) ==
    \/ \E s \in SourceKeys : SrcStart(s)
    \/ \E s \in SourceKeys : SrcStartFail(s)
    \/ \E s \in SourceKeys, line \in lines : FileWrite(s, line)
    \/ \E s \in SourceKeys : SrcEvent(s)
    \/ \E s \in SourceKeys : SrcSend(s)
    \/ \E s \in SourceKeys : SrcCancelled(s)
    \/ \E s \in SourceKeys : SrcWatcherEnd(s)
    \/ CloseRaw
    \/ \E w \in Workers : ProcessorWorkerRead(w)
    \/ \E w \in Workers : ProcessorWorkerClosed(w)
    \/ \E w \in Workers : ProcessorWorkerCancelled(w)
    \/ \E w \in Workers : ProcessorWorkerSend(w)
    \/ \E w \in Workers : ProcessorWorkerSendCancelled(w)
    \/ CloseResults
    \/ RunCtxDone
    \/ RunRecv
    \/ RunClosed
    \/ Cancel

NextRun == RunStep(Lines)

SpecRun == InitRun /\ [][NextRun]_vars

\* The goroutines are scheduled: as long as one of them can take a step, the
\* program does not stop. Writes to the files, the watcher's end and the
\* cancellation are up to the environment.
GoStep ==
    \/ \E s \in SourceKeys :
          SrcStart(s) \/ SrcStartFail(s) \/ SrcEvent(s) \/ SrcSend(s) \/ SrcCancelled(s)
    \/ \E w \in Workers :
          \/ ProcessorWorkerRead(w) \/ ProcessorWorkerClosed(w)
          \/ ProcessorWorkerCancelled(w)
          \/ ProcessorWorkerSend(w) \/ ProcessorWorkerSendCancelled(w)
    \/ CloseRaw \/ CloseResults
    \/ RunCtxDone \/ RunRecv \/ RunClosed

FairRun == WF_vars(GoStep)

\* The same engine fed with one kind of line: what the goroutines wait for does
\* not depend on what a line holds.
LiveLines == {RawText("2024-01-02T03:04:05Z WARN disk")}
NextLive == RunStep(LiveLines)

FairSpecRun == InitRun /\ [][NextLive]_vars /\ FairRun

\* ------------------------------------------------------ the pool on its own
\* processorManager.run (engine/processor.go:39-73) between the two channels
\* it is handed.  Its caller is the environment: it sends raw records, closes
\* the raw channel, takes processed records and cancels the context.
PoolFeed(s, line) ==
    /\ ~rawClosed
    /\ nLines < MaxLines
    /\ Len(rawLogs) < ChanCap
    /\ nLines' = nLines + 1
    /\ rawLogs' = Append(rawLogs, lineRecord(s, line))
    /\ UNCHANGED <<srcPc, srcUnread, srcLine, rawClosed, wPc, wRec, nextId,
                   pmReturned, results, resultsClosed, runPc, runErr, sent>>
    /\ UNCHANGED <<smState, ctxDone, cancelSeen, qVars>>

PoolCloseRaw ==
    /\ ~rawClosed
    /\ rawClosed' = TRUE
    /\ UNCHANGED <<srcPc, srcUnread, srcLine, nLines, rawLogs, wPc, wRec,
                   nextId, pmReturned, results, resultsClosed, runPc, runErr, sent>>
    /\ UNCHANGED <<smState, ctxDone, cancelSeen, qVars>>

PoolTake ==
    /\ results # <<>>
    /\ results' = Tail(results)
    /\ UNCHANGED <<srcPc, srcUnread, srcLine, nLines, rawLogs, rawClosed,
                   wPc, wRec, nextId, pmReturned, resultsClosed, runPc, runErr, sent>>
    /\ UNCHANGED <<smState, ctxDone, cancelSeen, qVars>>

InitPool == InitStorage({0}, {0}) /\ InitEngine /\ InitIdle

PoolStep(lines) ==
    \/ \E s \in SourceKeys, line \in lines : PoolFeed(s, line)
    \/ PoolCloseRaw
    \/ \E w \in Workers : WorkerRead(w)
    \/ \E w \in Workers : WorkerClosed(w)
    \/ \E w \in Workers : WorkerCancelled(w)
    \/ \E w \in Workers : WorkerSend(w)
    \/ \E w \in Workers : WorkerSendCancelled(w)
    \/ PmReturn
    \/ PoolTake
    \/ Cancel

NextPool == PoolStep(Lines)

SpecPool == InitPool /\ [][NextPool]_vars

\* The workers and the wait of run are scheduled, and the caller keeps
\* receiving from the processed channel until the context is cancelled; what
\* it sends, when it closes the raw channel and whether it cancels is up to it.
PoolGo ==
    \/ \E w \in Workers :
          \/ WorkerRead(w) \/ WorkerClosed(w) \/ WorkerCancelled(w)
          \/ WorkerSend(w) \/ WorkerSendCancelled(w)
    \/ PmReturn
PoolTakeLive == ~ctxDone /\ PoolTake

FairSpecPool == SpecPool /\ WF_vars(PoolGo) /\ WF_vars(PoolTakeLive)

\* ------------------------------------------------------ the engine with its store
\* The engine loop of the design: the pool is processorManager.run, and a
\* record received from the processed channel is handed to the storage buffer
\* (one addProcessedLogs call per record).
PipeRecv ==
    /\ runPc = "loop"
    /\ results # <<>>
    /\ results' = Tail(results)
    /\ addProcessedLogs(1, <<Head(results)>>)
    /\ UNCHANGED <<srcPc, srcUnread, srcLine, nLines, rawLogs, rawClosed,
                   wPc, wRec, nextId, pmReturned, resultsClosed, runPc, runErr, sent>>
    /\ UNCHANGED <<ctxDone, cancelSeen, qVars>>

\* every configuration with at least one of the two triggers
InitPipe ==
    /\ InitStorage(0..MaxBufSize, {0, 1})
    /\ bufferMaxSize > 0 \/ flushInterval > 0
    /\ InitEngine
    /\ InitIdle

\* sources, pool, engine loop and storage buffer; the context is never cancelled
NextPipe ==
    \/ \E s \in SourceKeys : SrcStart(s)
    \/ \E s \in SourceKeys : SrcStartFail(s)
    \/ \E s \in SourceKeys, line \in LiveLines : FileWrite(s, line)
    \/ \E s \in SourceKeys : SrcEvent(s)
    \/ \E s \in SourceKeys : SrcSend(s)
    \/ \E s \in SourceKeys : SrcWatcherEnd(s)
    \/ CloseRaw
    \/ \E w \in Workers : WorkerRead(w)
    \/ \E w \in Workers : WorkerClosed(w)
    \/ \E w \in Workers : WorkerSend(w)
    \/ PmReturn
    \/ CloseResults
    \/ PipeRecv
    \/ RunClosed
    \/ AddDispatch(1)
    \/ SmTick
    \/ SmTickDispatch
    \/ \E i \in DOMAIN flights : FlushFinish(i)

SpecPipe == InitPipe /\ [][NextPipe]_vars

\* The goroutines are scheduled, the ticker keeps firing and a store call
\* returns (it runs under its own timeout). Writes to the files and the
\* watcher's end are up to the environment.
PipeGo ==
    \/ \E s \in SourceKeys : SrcStart(s) \/ SrcStartFail(s) \/ SrcEvent(s) \/ SrcSend(s)
    \/ \E w \in Workers : WorkerRead(w) \/ WorkerClosed(w) \/ WorkerSend(w)
    \/ CloseRaw \/ PmReturn \/ CloseResults
    \/ PipeRecv \/ RunClosed \/ AddDispatch(1)
    \/ SmTick \/ SmTickDispatch
    \/ \E i \in DOMAIN flights : FlushFinish(i)

FairSpecPipe == SpecPipe /\ WF_vars(PipeGo)

\* ------------------------------------------------- claims on the storage buffer
OnesOnly == \A i \in DOMAIN calls : calls[i] = 1
AddersIdle == \A a \in Adders : addPc[a] = "idle"
Iota(n) == [i \in 1..n |-> i]
FlightsBy(by) == {i \in DOMAIN flights : flights[i].by = by}

\* C1: with bufferMaxSize = N > 0 and no ticker, once N addProcessedLogs calls of
\* one record each have returned, exactly one flush has been dispatched, its batch
\* is the N records in the order they were added, and the buffer is empty.
C1_SizeTrigger ==
    ( /\ flushInterval = 0
      /\ bufferMaxSize > 0
      /\ ~ctxDone
      /\ OnesOnly
      /\ Len(calls) = bufferMaxSize
      /\ AddersIdle )
    => /\ Len(flights) = 1
       /\ flights[1].batch = Iota(bufferMaxSize)
       /\ flights[1].by = "add"
       /\ processedBuffer = <<>>

C1_Witness ==
    /\ flushInterval = 0
    /\ bufferMaxSize = 3
    /\ ~ctxDone
    /\ calls = <<1, 1, 1>>
    /\ AddersIdle
    /\ Len(flights) = 1
    /\ flights[1].batch = <<1, 2, 3>>

\* C2: with a ticker and bufferMaxSize = N, k adds of one record each (0 < k < N)
\* dispatch nothing until the tick, and once the tick that follows them has been
\* handled, with no cancellation, exactly one flush has been dispatched, by the
\* tick, holding exactly those k records.
C2_IntervalTrigger ==
    /\ ( /\ flushInterval > 0
         /\ ~ctxDone
         /\ ticks = 0
         /\ OnesOnly
         /\ nAdded < bufferMaxSize )
       => /\ flights = <<>>
          /\ processedBuffer = Iota(nAdded)
    /\ ( /\ flushInterval > 0
         /\ ~ctxDone
         /\ ticks >= 1
         /\ smPc = "select"
         /\ OnesOnly
         /\ 0 < nAdded
         /\ nAdded < bufferMaxSize
         /\ tickSeen[1].added = nAdded )
       => /\ Len(flights) = 1
          /\ flights[1].batch = Iota(nAdded)
          /\ flights[1].by = "tick"
          /\ processedBuffer = <<>>

C2_Witness ==
    /\ flushInterval > 0
    /\ bufferMaxSize = 3
    /\ ~ctxDone
    /\ ticks = 1
    /\ smPc = "select"
    /\ calls = <<1, 1>>
    /\ tickSeen[1].added = 2
    /\ Len(flights) = 1
    /\ flights[1].batch = <<1, 2>>
    /\ flights[1].by = "tick"

\* C3: the ctx.Done branch of run dispatches one flush holding the records it
\* finds in the buffer (none when the buffer is empty); these are the records the
\* buffer held at cancellation when nothing was added and no tick was handled in
\* between; and run returns only when every flush dispatched until then, by a
\* tick, by an Add or by itself, has finished its StoreProcessedLogs call.
C3_Shutdown ==
    /\ (smPc \in {"wait", "returned"})
       => /\ finalSeen.set
          /\ IF finalSeen.buffer # <<>>
               THEN \E i \in DOMAIN flights :
                       /\ FlightsBy("final") = {i}
                       /\ flights[i].batch = finalSeen.buffer
               ELSE FlightsBy("final") = {}
    /\ ( /\ finalSeen.set
         /\ finalSeen.added = cancelSeen.added
         /\ ~cancelSeen.ticked )
       => finalSeen.buffer = cancelSeen.buffer
    /\ (smPc = "returned")
       => \A i \in 1..returnSeen : flights[i].done

C3_Witness ==
    /\ smPc = "returned"
    /\ cancelSeen.buffer # <<>>
    /\ \E i \in 1..returnSeen :
          /\ flights[i].by = "final"
          /\ flights[i].batch = cancelSeen.buffer
    /\ \E i \in 1..returnSeen : flights[i].by = "add" /\ flights[i].done

\* ------------------------------------------- claims on the pool and the engine
Held == {wRec[w] : w \in {v \in Workers : wPc[v] = "send"}}
AllWorkersExited == \A w \in Workers : wPc[w] = "exited"
Emitted == {sent[i] : i \in DOMAIN sent}

\* The k-th record sent on the raw channel is the k-th one a worker reads, and
\* gets the identifier k.
SentRaw(k) == nextId + Len(rawLogs) >= k
ReadByWorker(k) == nextId >= k
SentProcessed(k) == \E i \in DOMAIN sent : sent[i].out.id = k
Stored(k) ==
    \E i \in DOMAIN flights : \E j \in DOMAIN flights[i].batch :
        flights[i].batch[j].id = k

\* C4 as stated: with the context never cancelled, under fair scheduling and
\* for every configuration with at least one trigger, every record sent on
\* the raw channel is eventually read by a worker, sent on the processed
\* channel and passed to StoreProcessedLogs in some batch.
C4_PipelineComplete ==
    \A k \in 1..MaxLines :
        SentRaw(k) ~> (ReadByWorker(k) /\ SentProcessed(k) /\ Stored(k))

\* C4 amended: the same, for every configuration with a nonzero flush interval
\* or a maximum size of one.
C4_PipelineCompleteTicking ==
    \A k \in 1..MaxLines :
        ((flushInterval > 0 \/ bufferMaxSize = 1) /\ SentRaw(k))
            ~> (ReadByWorker(k) /\ SentProcessed(k) /\ Stored(k))

C4_Witness ==
    /\ flushInterval > 0
    /\ bufferMaxSize > 1
    /\ ~ctxDone
    /\ nLines = MaxLines
    /\ \A k \in 1..MaxLines : ReadByWorker(k) /\ SentProcessed(k) /\ Stored(k)
    /\ \E i \in DOMAIN flights : flights[i].by = "tick" /\ flights[i].done

\* C5: every record sent on the processed channel has its id, source and
\* timestamp populated, the source being the name the producing source gave it.
C5_RecordPopulated ==
    \A e \in Emitted :
        /\ e.out.id # NilID
        /\ e.out.timestamp # ZeroTime
        /\ e.out.source # ""
        /\ e.out.source = e.raw.source

\* C6: processorManager.run has returned only if every worker has exited; once
\* every worker has exited it returns; and it returns once the raw channel is
\* closed and drained or the context is cancelled, whatever the workers were
\* doing then.
C6_PoolTerminates ==
    /\ [](pmReturned => AllWorkersExited)
    /\ (AllWorkersExited ~> pmReturned)
    /\ ((ctxDone \/ (rawClosed /\ rawLogs = <<>>)) ~> pmReturned)

C6_Witness ==
    /\ pmReturned
    /\ ctxDone
    /\ Len(results) = ChanCap
    /\ \E w \in Workers :
          /\ wRec[w].out.id # NilID
          /\ \A i \in DOMAIN sent : sent[i] # wRec[w]

\* C7: for a record of a known source, a link whose processor is not registered
\* or fails hands on the record it received, a link that succeeds hands on what
\* its processor returned, every link of the chain is visited in order, and the
\* record sent is the one the last link handed on.
C7_FailedLinkIsIdentity ==
    \A e \in Emitted \cup Held :
        e.raw.source \in SourceKeys =>
            LET chain == Sources[e.raw.source].chain
            IN /\ Len(e.trace) = Len(chain) + 1
               /\ e.trace[1] = e.raw
               /\ \A i \in 1..Len(chain) :
                     IF chain[i] \notin DOMAIN Processors
                       THEN e.trace[i + 1] = e.trace[i]
                       ELSE IF Process(chain[i], e.trace[i]).err
                              THEN e.trace[i + 1] = e.trace[i]
                              ELSE e.trace[i + 1] = Process(chain[i], e.trace[i]).rec
               /\ e.out = [e.trace[Len(chain) + 1] EXCEPT !.id = e.out.id]

C7_Witness ==
    \E i \in DOMAIN sent :
        /\ sent[i].raw.source = "app"
        /\ sent[i].trace[2] = sent[i].raw
        /\ sent[i].trace[3] = sent[i].raw
        /\ JsonProcess(sent[i].raw).err
        /\ sent[i].out.level = LogLevelWarn
        /\ sent[i].out.message = "disk"

\* C8: every record sent on the processed channel carries a non-nil identifier,
\* given to it after its chain (the chain's result carries none), and no two
\* records sent carry the same one; a record of an unknown source is sent as it
\* was received but for the identifier.
C8_IdentifierAssignment ==
    /\ \A i \in DOMAIN sent :
          /\ sent[i].out.id # NilID
          /\ sent[i].trace[Len(sent[i].trace)].id = NilID
          /\ sent[i].raw.source \notin SourceKeys
                => sent[i].out = [sent[i].raw EXCEPT !.id = sent[i].out.id]
    /\ \A i, j \in DOMAIN sent : i # j => sent[i].out.id # sent[j].out.id
    /\ \A i \in DOMAIN results : results[i].id # NilID

C8_Witness ==
    \E i, j \in DOMAIN sent :
        /\ sent[i].raw.source = "syslog"
        /\ sent[i].out.id # NilID
        /\ sent[j].raw.source = "app"
        /\ sent[j].out = [sent[j].raw EXCEPT !.id = sent[j].out.id]
        /\ sent[j].out.id # sent[i].out.id

\* C9: once the context is cancelled every source returns and the raw channel
\* is closed.
C9_SourcesReturn ==
    ctxDone ~> ((\A s \in SourceKeys : srcPc[s] = "returned") /\ rawClosed)

\* C10: Run returns the context's error only after the pool's workers have
\* returned.
C10_RunReturnsLast ==
    (runPc = "returned" /\ runErr = "ctx") => AllWorkersExited

\* ------------------------------------------------ claims on the start of Run
\* Run is called once on an engine of any configuration
InitConfig ==
    /\ InitStorage({0}, {0})
    /\ InitEngine
    /\ config \in Configs
    /\ runPhase = "new"
    /\ InitIdleLexer /\ InitIdleParser /\ InitIdleSQL /\ InitIdleMore

NextConfig == RunRejected \/ RunStarted

SpecConfig == InitConfig /\ [][NextConfig]_vars

InvalidConfig(cfg) ==
    \/ cfg.Sources = 0
    \/ cfg.Storage = "nil"
    \/ cfg.ProcessedLogsBufferMaxSize = 0
    \/ cfg.ProcessorWorkersCount = 0
    \/ (cfg.RawLogsBufferMaxSize = 0 /\ cfg.StorageFlushInterval = 0)

\* C11: whenever the configuration has no source, a nil storage, a processed-
\* logs buffer size of zero, a worker count of zero, or both the raw buffer
\* size and the flush interval zero, Run returns an error and has started no
\* goroutine.
C11_ValidationFailsFast ==
    (runPhase # "new" /\ InvalidConfig(config)) => runPhase = "rejected"

\* ------------------------------------------------------- claims on the lexer
\* one rune of every class the lexer tells apart
Alphabet == {"7", "a", ".", "-", "_", " ", ",", "=", ":", "\"", "<", "#"}
RECURSIVE Strings(_)
Strings(n) ==
    IF n = 0 THEN {""}
    ELSE Strings(n - 1) \cup {str \o r : str \in Strings(n - 1), r \in Alphabet}

\* querier/lexer/lexer_test.go:10-31  lines of TestNextToken's input, and the
\* query of the specification's example
LexSamples ==
    {"timestamp=2016-12-20,2018-01-01 sort=-level limit=100",
     "metadata.example=0.01,43.555", "-a=-19", "null", "true", "false",
     "source=main-server,docker-compose", "metadata.another-number!=3000"}

LexInputs == Strings(MaxLen) \cup LexSamples

\* a lexer is made for an input and asked for its tokens up to EOF
InitLex ==
    /\ InitStorage({0}, {0})
    /\ InitEngine
    /\ InitIdleRun /\ InitIdleParser /\ InitIdleSQL /\ InitIdleMore
    /\ \E input \in LexInputs : lexer = LexerNew(input)
    /\ tokens = <<>>

NextLex == LexNextToken

SpecLex == InitLex /\ [][NextLex]_vars

Letters == Runes("abcdefghijklmnopqrstuvwxyzABCDEFGHIJKLMNOPQRSTUVWXYZ")
Digits == Runes("0123456789")
\* whitespace, comma, an operator or bracket character
Boundaries == {" ", "\t", "\n", "\r", ",", "=", "~", "!", "&", "|", "(", ")", "<", ">"}

\* the part of the input from position `start` (counted from 0) up to the
\* next boundary or the end of the input
RECURSIVE RunFrom(_, _)
RunFrom(input, start) ==
    IF start >= Len(input) \/ Ch(input, start + 1) \in Boundaries THEN ""
    ELSE Ch(input, start + 1) \o RunFrom(input, start + 1)

Dots(str) == Cardinality({i \in 1..Len(str) : Ch(str, i) = "."})

\* the rune at a position counted from 0, nothing past the end
RuneAt(input, at) == IF at < Len(input) THEN Ch(input, at + 1) ELSE ""

StartsWithDigit(t) == RuneAt(lexer.input, t.start) \in Digits

\* C12: a token that starts with a digit is Int when the run up to the next
\* boundary is all digits, Decimal when it is digits with exactly one dot, and
\* otherwise one String token whose literal is the whole run; every Int
\* literal consists only of digits.
C12_NumericRuns ==
    \A i \in DOMAIN tokens :
        LET t == tokens[i]
            run == RunFrom(lexer.input, t.start)
        IN /\ StartsWithDigit(t) =>
                /\ t.Literal = run
                /\ t.Type = IF Runes(run) \subseteq Digits THEN "INT"
                            ELSE IF Runes(run) \subseteq Digits \cup {"."} /\ Dots(run) = 1
                              THEN "DECIMAL"
                            ELSE "STRING"
           /\ t.Type = "INT" => (t.Literal # "" /\ Runes(t.Literal) \subseteq Digits)

C12_Witness ==
    /\ lexer.input = "timestamp=2016-12-20,2018-01-01 sort=-level limit=100"
    /\ Len(tokens) = 13
    /\ [i \in 1..13 |-> tokens[i].Type] =
          <<"IDENT", "EQUAL", "STRING", "COMMA", "STRING", "IDENT", "EQUAL",
            "MINUS", "IDENT", "IDENT", "EQUAL", "INT", "EOF">>
    /\ tokens[3].Literal = "2016-12-20"
    /\ tokens[5].Literal = "2018-01-01"
    /\ tokens[12].Literal = "100"

\* C13: every Ident literal is non-empty and made of letters, digits,
\* underscore, dot and hyphen only, and ends at the first whitespace, comma or
\* operator or bracket character; null, true and false are Null, True and
\* False tokens; a leading hyphen is a Minus token of its own.
C13_Identifiers ==
    \A i \in DOMAIN tokens :
        LET t == tokens[i]
            first == RuneAt(lexer.input, t.start)
        IN /\ t.Type = "IDENT" =>
                /\ t.Literal # ""
                /\ Runes(t.Literal) \subseteq Letters \cup Digits \cup {"_", ".", "-"}
                /\ t.Literal = RunFrom(lexer.input, t.start)
                /\ t.Literal \notin {"null", "true", "false"}
           /\ t.Type \in {"NULL", "TRUE", "FALSE"} =>
                t.Literal = RunFrom(lexer.input, t.start)
           /\ t.Type = "NULL" <=> (first \in Letters \cup {"_", "."} /\ t.Literal = "null")
           /\ t.Type = "TRUE" <=> (first \in Letters \cup {"_", "."} /\ t.Literal = "true")
           /\ t.Type = "FALSE" <=> (first \in Letters \cup {"_", "."} /\ t.Literal = "false")
           /\ first = "-" => t = [Type |-> "MINUS", Literal |-> "-", start |-> t.start]

\* ------------------------------------------------------ claims on the parser
\* querier/parser/parser_test.go:18-41, 83-85  dates and cursors of the tests
\* and of the specification's examples, with the instants the dates name
Dates ==
    ("2021-04-17" :> Unix(1618617600)) @@ ("2022-03-10" :> Unix(1646870400))
    @@ ("2022-02-12T12:00:00" :> Unix(1644667200))
    @@ ("2022-02-12T10:10:10Z" :> Unix(1644660610))
    @@ ("2022-02-12T12:00:00+24:00" :> Unix(1644580800))
    @@ ("1970-01-01" :> Unix(0))
Cursors ==
    {"\"1234567890\"", "1b4e28ba-2fa1-11d2-883f-0016d3cca427",
     "a1b4e28b-2fa1-11d2-883f-0016d3cca427"}
Unquoted(str) ==
    IF Len(str) >= 2 /\ Ch(str, 1) = "\"" THEN SubSeq(str, 2, Len(str) - 1) ELSE str

TimestampStatements ==
    {"timestamp=" \o d1 : d1 \in DOMAIN Dates}
    \cup {"timestamp=" \o d1 \o "," \o d2 : d1, d2 \in DOMAIN Dates}
CursorStatements == {"cursor=" \o c : c \in Cursors}
LimitStatements == {"limit=100", "limit=0"}
SortStatements == {"sort=level", "sort=-level,id,-source"}
Malformed ==
    {"foo", "timestamp", "timestamp 2021-04-17", "timestamp=", "timestamp=abc",
     "timestamp=2021-13-01", "timestamp=2021-04-17,", "timestamp=2021-04-17,x",
     "limit", "limit=abc", "limit=99999999999999999999",
     "limit=9223372036854775808", "cursor", "cursor=",
     ":", ": level=7"}
Statements ==
    TimestampStatements \cup CursorStatements \cup LimitStatements
    \cup SortStatements \cup Malformed

\* up to n statements separated by a space
RECURSIVE Composed(_)
Composed(n) ==
    IF n = 1 THEN Statements
    ELSE Composed(n - 1)
         \cup {text \o " " \o stmt : text \in Composed(n - 1), stmt \in Statements}

\* a parser is made for a query text and ParseQuery is called on it
InitParse ==
    /\ InitStorage({0}, {0})
    /\ InitEngine
    /\ InitIdleRun /\ InitIdleSQL /\ InitIdleMore
    /\ \E input \in Composed(MaxStatements) : lexer = LexerNew(input)
    /\ tokens = <<>>
    /\ parser = NoParser
    /\ query = NoQuery

NextParse == ParserNew \/ ParseStatementStep \/ ParseReturn

SpecParse == InitParse /\ [][NextParse]_vars

\* C14: timestamp=<d1> sets Start to d1 and leaves End zero; timestamp=<d1>,<d2>
\* sets Start to d1 and End to d2 as written, also when d2 is before d1, which
\* makes the direction backward; ParseQuery finishes at EOF with every other
\* field of the query zero.
C14_Timestamp ==
    /\ \A d1 \in DOMAIN Dates :
          lexer.input = "timestamp=" \o d1 =>
              /\ parser.pc # "panic"
              /\ parser.pc = "done" =>
                    /\ query = [NoQuery EXCEPT !.Start = Dates[d1]]
                    /\ parser.curToken.Type = "EOF"
                    /\ GetQueryDirection(query) = "forward"
    /\ \A d1, d2 \in DOMAIN Dates :
          lexer.input = "timestamp=" \o d1 \o "," \o d2 =>
              /\ parser.pc # "panic"
              /\ parser.pc = "done" =>
                    /\ query = [NoQuery EXCEPT !.Start = Dates[d1], !.End = Dates[d2]]
                    /\ parser.curToken.Type = "EOF"
                    /\ GetQueryDirection(query) = "backward" <=> Before(Dates[d2], Dates[d1])

C14_Witness ==
    /\ lexer.input = "timestamp=2022-02-12T12:00:00,2022-02-12T10:10:10Z"
    /\ parser.pc = "done"
    /\ query.Start = Unix(1644667200)
    /\ query.End = Unix(1644660610)
    /\ GetQueryDirection(query) = "backward"

\* C15: ParseQuery ends without a panic on whatever the lexer produces; an
\* unexpected keyword or a malformed control statement is reported to the
\* caller as a syntax error.
C15_NoPanic == parser.pc # "panic"

\* the control statements with the field each sets and the value it gives it
TimestampEffects ==
    {[text |-> "timestamp=" \o d1, kind |-> "timestamp", Start |-> Dates[d1],
      End |-> ZeroTime] : d1 \in DOMAIN Dates}
    \cup {[text |-> "timestamp=" \o d1 \o "," \o d2, kind |-> "timestamp",
           Start |-> Dates[d1], End |-> Dates[d2]] : d1, d2 \in DOMAIN Dates}
LimitEffects == {[text |-> "limit=100", kind |-> "limit", Limit |-> 100]}
CursorEffects ==
    {[text |-> "cursor=\"1234567890\"", kind |-> "cursor", Cursor |-> "1234567890"]}
WithEffect(q, e) ==
    IF e.kind = "timestamp" THEN [q EXCEPT !.Start = e.Start, !.End = e.End]
    ELSE IF e.kind = "limit" THEN [q EXCEPT !.Limit = e.Limit]
    ELSE [q EXCEPT !.Cursor = e.Cursor]

\* C16: a query text of several control statements separated by whitespace,
\* in any order, is parsed into one query in which every statement has taken
\* effect.
C16_Composition ==
    \A e1, e2 \in TimestampEffects \cup LimitEffects \cup CursorEffects :
        (e1.kind # e2.kind /\ lexer.input = e1.text \o " " \o e2.text) =>
            /\ parser.pc # "panic"
            /\ parser.pc = "done" => query = WithEffect(WithEffect(NoQuery, e1), e2)

\* C17: cursor=<value> sets the cursor to the value's literal, whether the
\* value is lexed as a String token or as an Ident token.
C17_Cursor ==
    \A c \in Cursors :
        lexer.input = "cursor=" \o c =>
            /\ parser.pc # "panic"
            /\ parser.pc = "done" => query = [NoQuery EXCEPT !.Cursor = Unquoted(c)]

\* C18: sort=[-]f1(,[-]fi)* gives the query one sort directive for each field
\* listed, in the order written, descending exactly for the fields that
\* follow a hyphen.
C18_Sort ==
    /\ lexer.input = "sort=level" =>
          /\ parser.pc # "panic"
          /\ parser.pc = "done" =>
                query.Sort = <<[Name |-> "level", IsDescending |-> FALSE]>>
    /\ lexer.input = "sort=-level,id,-source" =>
          /\ parser.pc # "panic"
          /\ parser.pc = "done" =>
                query.Sort = <<[Name |-> "level", IsDescending |-> TRUE],
                               [Name |-> "id", IsDescending |-> FALSE],
                               [Name |-> "source", IsDescending |-> TRUE]>>

\* ------------------------------------------------- claims on the SQL builder
\* instants before, at and after the zero time
SqlTimes == {Instant(0, a, 0) : a \in -1..MaxTime}
SqlSorts ==
    {<<>>,
     <<[Name |-> "level", IsDescending |-> TRUE]>>,
     <<[Name |-> "timestamp", IsDescending |-> TRUE],
       [Name |-> "source", IsDescending |-> FALSE]>>,
     <<[Name |-> "id", IsDescending |-> FALSE]>>}
SqlQueries ==
    {[NoQuery EXCEPT !.Start = a, !.End = b, !.Sort = srt, !.Limit = n] :
        a \in SqlTimes, b \in SqlTimes, srt \in SqlSorts, n \in {0, 100}}

\* Build is called on a query and on the same query with Start and End
\* exchanged
InitSQL ==
    /\ InitStorage({0}, {0})
    /\ InitEngine
    /\ InitIdleRun /\ InitIdleLexer /\ InitIdleParser /\ InitIdleMore
    /\ sqlOpts \in {SQLOpts, SQLOptsSort}
    /\ sqlQuery \in SqlQueries
    /\ sqlResult = NoSQL
    /\ sqlSwapped = NoSQL

NextSQL == SqlBuild \/ SqlBuildExchanged

SpecSQL == InitSQL /\ [][NextSQL]_vars

Earlier(a, b) == IF Before(a, b) THEN a ELSE b
Later(a, b) == IF Before(a, b) THEN b ELSE a
LimitText(n) == IF n = 0 THEN "LIMIT 0" ELSE "LIMIT 100"
Backward(q) == q.End # ZeroTime /\ Before(q.End, q.Start)

\* C19: for a query without sort directives Build emits ORDER BY timestamp
\* DESC exactly when end is not zero and before start, and ORDER BY timestamp
\* ASC otherwise; this agrees with GetQueryDirection.
C19_Direction ==
    (sqlResult.built /\ sqlQuery.Sort = <<>>) =>
        /\ sqlResult.err = "nil"
        /\ sqlResult.orderByClause =
              (IF Backward(sqlQuery) THEN "ORDER BY timestamp DESC"
                                     ELSE "ORDER BY timestamp ASC")
        /\ sqlResult.Query =
              "SELECT * FROM logs WHERE " \o sqlResult.whereClause \o " "
              \o (IF Backward(sqlQuery) THEN "ORDER BY timestamp DESC"
                                        ELSE "ORDER BY timestamp ASC")
              \o " " \o LimitText(sqlQuery.Limit)
        /\ GetQueryDirection(sqlQuery) = "backward"
              <=> sqlResult.orderByClause = "ORDER BY timestamp DESC"

C19_Witness ==
    /\ sqlResult.built
    /\ sqlQuery.Sort = <<>>
    /\ sqlQuery.Start = Instant(0, 2, 0)
    /\ sqlQuery.End = Instant(0, 1, 0)
    /\ sqlQuery.Limit = 100
    /\ sqlResult.Query =
          "SELECT * FROM logs WHERE timestamp >= ? AND timestamp <= ? ORDER BY timestamp DESC LIMIT 100"

\* C20: for two instants a and b, neither zero, Build on (start a, end b) and
\* Build on (start b, end a) give the same timestamp clauses in WHERE and the
\* same bound arguments, the earlier then the later, and differ in nothing
\* but the ORDER BY clause.
C20_SymmetricBounds ==
    (/\ sqlResult.built /\ sqlSwapped.built
     /\ sqlQuery.Start # ZeroTime /\ sqlQuery.End # ZeroTime) =>
        /\ sqlResult.err = "nil" <=> sqlSwapped.err = "nil"
        /\ sqlResult.err = "nil" =>
              /\ sqlResult.whereClause = "timestamp >= ? AND timestamp <= ?"
              /\ sqlSwapped.whereClause = "timestamp >= ? AND timestamp <= ?"
              /\ sqlResult.Args = <<Earlier(sqlQuery.Start, sqlQuery.End),
                                    Later(sqlQuery.Start, sqlQuery.End)>>
              /\ sqlSwapped.Args = sqlResult.Args
              /\ sqlResult.Query =
                    "SELECT * FROM logs WHERE timestamp >= ? AND timestamp <= ? "
                    \o sqlResult.orderByClause \o " " \o LimitText(sqlQuery.Limit)
              /\ sqlSwapped.Query =
                    "SELECT * FROM logs WHERE timestamp >= ? AND timestamp <= ? "
                    \o sqlSwapped.orderByClause \o " " \o LimitText(sqlQuery.Limit)

C20_Witness ==
    /\ sqlResult.built /\ sqlSwapped.built
    /\ sqlQuery.Start = Instant(0, 2, 0)
    /\ sqlQuery.End = Instant(0, 1, 0)
    /\ sqlQuery.Sort = <<>>
    /\ sqlResult.Args = <<Instant(0, 1, 0), Instant(0, 2, 0)>>
    /\ sqlSwapped.Args = <<Instant(0, 1, 0), Instant(0, 2, 0)>>
    /\ sqlResult.orderByClause = "ORDER BY timestamp DESC"
    /\ sqlSwapped.orderByClause = "ORDER BY timestamp ASC"

\* C21: for a query with a start that is not zero and an end that is zero the
\* WHERE clause holds one timestamp condition, timestamp >= ? bound to start,
\* and no timestamp <= ? condition.
C21_OpenEndedRange ==
    (/\ sqlResult.built /\ sqlResult.err = "nil"
     /\ sqlQuery.Start # ZeroTime /\ sqlQuery.End = ZeroTime) =>
        /\ sqlResult.whereClause = "timestamp >= ?"
        /\ sqlResult.Args = <<sqlQuery.Start>>

\* the directives of a sort as text, in their order
RECURSIVE Directives(_)
Directives(sort) ==
    LET text == sort[1].Name \o (IF sort[1].IsDescending THEN " DESC" ELSE " ASC")
    IN IF Len(sort) = 1 THEN text ELSE text \o ", " \o Directives(Tail(sort))
SortAllowList(opts) ==
    IF opts.AllowedSortFields = <<>> THEN {"source", "level", "timestamp"}
    ELSE {opts.AllowedSortFields[i] : i \in DOMAIN opts.AllowedSortFields}
NamesTimestamp(sort) == \E i \in DOMAIN sort : sort[i].Name = "timestamp"

\* C23: for a query with sort directives, a directive whose field is not in
\* the allow-list (source, level, timestamp unless configured) makes Build
\* return an error and no SQL; otherwise ORDER BY holds the directives in
\* their order as field ASC or field DESC, and timestamp with the direction of
\* the time range comes last exactly when no directive names timestamp.
C23_OrderBy ==
    (sqlResult.built /\ sqlQuery.Sort # <<>>) =>
        IF \E i \in DOMAIN sqlQuery.Sort :
              sqlQuery.Sort[i].Name \notin SortAllowList(sqlOpts)
        THEN /\ sqlResult.err # "nil"
             /\ sqlResult.Query = ""
             /\ sqlResult.orderByClause = ""
        ELSE /\ sqlResult.err = "nil"
             /\ sqlResult.orderByClause =
                   "ORDER BY " \o Directives(sqlQuery.Sort)
                   \o (IF NamesTimestamp(sqlQuery.Sort) THEN ""
                       ELSE IF Backward(sqlQuery) THEN ", timestamp DESC"
                       ELSE ", timestamp ASC")
             /\ sqlResult.Query =
                   "SELECT * FROM logs WHERE " \o sqlResult.whereClause \o " "
                   \o sqlResult.orderByClause \o " " \o LimitText(sqlQuery.Limit)

C23_Witness ==
    /\ sqlResult.built /\ sqlSwapped.built
    /\ sqlOpts = SQLOpts
    /\ sqlQuery.Sort = <<[Name |-> "level", IsDescending |-> TRUE]>>
    /\ sqlQuery.Start = Instant(0, 2, 0)
    /\ sqlQuery.End = Instant(0, 1, 0)
    /\ sqlResult.orderByClause = "ORDER BY level DESC, timestamp DESC"
    /\ sqlSwapped.orderByClause = "ORDER BY level DESC, timestamp ASC"

\* ------------------------------------------------------------ filter trees
\* the comparisons handed to the builder: two on allowed fields, one whose
\* field name carries SQL, one on a quoted metadata key that holds a question
\* mark, and three that formatComparison rejects whatever the options are
\* (operator 0 is OperatorEq, 6 OperatorLike, 8 OperatorIn, 9 none of them)
CmpLevel == ComparisonNode("level", Value("error"), 0)
CmpUser == ComparisonNode("metadata.user_id", Value("42"), 8)
CmpInjected == ComparisonNode("level; DROP TABLE logs", Value("x"), 0)
CmpMark == ComparisonNode("metadata.\"a?\"", Value("1"), 6)
CmpNoValue == ComparisonNode("level", NilValue, 0)
CmpNoField == ComparisonNode("", Value("x"), 0)
CmpNoOperator == ComparisonNode("level", Value("x"), 9)
Leaves ==
    {NilNode, OtherNode, AndNode(<<>>), OrNode(<<>>), CmpLevel, CmpUser,
     CmpInjected, CmpMark, CmpNoValue, CmpNoField, CmpNoOperator}

\* the trees of the given depth: a tree one level lower, negated or put into
\* a conjunction or a disjunction
RECURSIVE Trees(_)
Trees(depth) ==
    IF depth = 0 THEN Leaves
    ELSE LET lower == Trees(depth - 1)
         IN lower
            \cup {NotNode(n) : n \in lower}
            \cup {AndNode(<<CmpLevel, n>>) : n \in lower}
            \cup {OrNode(<<n, CmpUser>>) : n \in lower}
            \cup {AndNode(<<n>>) : n \in lower}
            \cup {OrNode(<<NilNode, n, AndNode(<<>>)>>) : n \in lower}

FilterQueries ==
    {[NoQuery EXCEPT !.Node = n, !.Start = Instant(0, t[1], 0),
                     !.End = Instant(0, t[2], 0), !.Limit = 100] :
        n \in Trees(MaxDepth), t \in {<<0, 0>>, <<1, 0>>, <<1, 2>>, <<2, 1>>}}

\* Build is called on a query with a filter tree, by a builder without and
\* by one with a pattern for the field names
InitFilter ==
    /\ InitStorage({0}, {0})
    /\ InitEngine
    /\ InitIdleRun /\ InitIdleLexer /\ InitIdleParser /\ InitIdleMore
    /\ sqlOpts \in {SQLOpts, SQLOptsRegex}
    /\ sqlQuery \in FilterQueries
    /\ sqlResult = NoSQL
    /\ sqlSwapped = NoSQL

NextFilter == SqlBuild

SpecFilter == InitFilter /\ [][NextFilter]_vars

\* the field names of the comparisons of a tree
RECURSIVE FieldNames(_)
FieldNames(node) ==
    CASE node.kind = "comparison" -> {node.FieldName}
      [] node.kind = "not" -> FieldNames(node.Child)
      [] node.kind \in {"and", "or"} ->
            UNION {FieldNames(node.Children[i]) : i \in DOMAIN node.Children}
      [] OTHER -> {}

\* whether text holds part somewhere
Holds(text, part) ==
    \E at \in 1..(Len(text) - Len(part) + 1) :
        SubSeq(text, at, at + Len(part) - 1) = part

\* C22: with a pattern configured for the filter fields, a comparison anywhere
\* in the tree, at the root or under any nesting of And, Or and Not, whose
\* field name does not match the pattern makes Build return an error and an
\* empty result; a field name reaches the SQL text only if it matched.
C22_FieldsFiltered ==
    (sqlResult.built /\ sqlOpts.AllowedFilterFieldsRegex # "nil") =>
        /\ (\E name \in FieldNames(sqlQuery.Node) : ~MatchAllowedFields(name)) =>
              /\ sqlResult.err # "nil"
              /\ sqlResult.Query = ""
              /\ sqlResult.Args = <<>>
        /\ \A name \in FieldNames(sqlQuery.Node) :
              (name # "" /\ Holds(sqlResult.Query, name)) => MatchAllowedFields(name)

C22_Witness ==
    /\ sqlResult.built
    /\ sqlOpts = SQLOptsRegex
    /\ sqlQuery.Node = NotNode(AndNode(<<CmpLevel, CmpInjected>>))
    /\ sqlResult.err =
          "failed to build where clause: invalid field name: level; DROP TABLE logs"
    /\ sqlResult.Query = ""
    /\ sqlResult.Args = <<>>

\* the values of the comparisons of a tree, from left to right
RECURSIVE ComparisonValues(_)
RECURSIVE ChildrenValues(_)
ChildrenValues(children) ==
    IF children = <<>> THEN <<>>
    ELSE ComparisonValues(Head(children)) \o ChildrenValues(Tail(children))
ComparisonValues(node) ==
    CASE node.kind = "comparison" -> <<node.Value>>
      [] node.kind = "not" -> ComparisonValues(node.Child)
      [] node.kind \in {"and", "or"} -> ChildrenValues(node.Children)
      [] OTHER -> <<>>

\* a tree that holds no comparison: nil, an And or Or without children or
\* with such children only, a Not of such a tree
NoComparison(node) == node.kind # "other" /\ ComparisonValues(node) = <<>>

\* the question marks of a text
CountMarks(text) == Cardinality({at \in 1..Len(text) : SubSeq(text, at, at) = "?"})

\* C28: for every tree on which Build succeeds the SQL text holds as many ?
\* placeholders as there are arguments; the arguments are the timestamp
\* bound or bounds followed by the comparison values from left to right; an
\* And or Or with no children or only empty ones and a Not of an empty child
\* add nothing to the clause.
C28_PlaceholdersAligned ==
    (sqlResult.built /\ sqlResult.err = "nil") =>
        LET values == ComparisonValues(sqlQuery.Node)
            bounds == Len(sqlResult.Args) - Len(values)
        IN /\ CountMarks(sqlResult.Query) = Len(sqlResult.Args)
           /\ bounds \in {1, 2}
           /\ \A i \in 1..bounds : sqlResult.Args[i] \in {sqlQuery.Start, sqlQuery.End}
           /\ \A i \in DOMAIN values : sqlResult.Args[bounds + i] = values[i]
           /\ NoComparison(sqlQuery.Node) =>
                 sqlResult.whereClause \in {"timestamp >= ?",
                                            "timestamp >= ? AND timestamp <= ?"}

\* ------------------------------------------------------------ search requests
\* the queries posted to the search endpoint: limits at and beside both ends
\* of the allowed range, start zero and not zero, a sort the store accepts
\* and one it rejects.  The Node of a decoded query is nil: QueryNode is an
\* interface that encoding/json cannot fill.
SearchQueries ==
    {[NoQuery EXCEPT !.Start = a, !.End = b, !.Limit = l, !.Sort = srt] :
        a \in {Instant(0, i, 0) : i \in 0..MaxTime},
        b \in {Instant(0, i, 0) : i \in 0..MaxTime},
        l \in {LimitMin - 2, LimitMin - 1, LimitMin, LimitMax, LimitMax + 1},
        srt \in {<<>>, <<[Name |-> "id", IsDescending |-> FALSE]>>}}
\* the bodies posted: the queries, a body with a filter in Node, a limit
\* that is a string, a body that is a list, a start that is no instant, an
\* unknown key, badly formed and cut off JSON, no body, two values and a
\* body over the size limit
SearchBodies ==
    {QueryBody(q) : q \in SearchQueries}
    \cup {OtherBody("type", "Node"), OtherBody("type", "limit"), OtherBody("type", ""),
          OtherBody("value", "start"), OtherBody("unknown", "filter"),
          OtherBody("syntax", ""), OtherBody("truncated", ""), OtherBody("empty", ""),
          OtherBody("extra", ""), OtherBody("toolarge", "")}

\* a request has reached the handler; the store builds its statements with
\* the pattern for the field names
InitSearch ==
    /\ InitStorage({0}, {0})
    /\ InitEngine
    /\ InitIdleRun /\ InitIdleLexer /\ InitIdleParser /\ InitIdleJson /\ InitIdleTail
    /\ sqlOpts = SQLOptsStore
    /\ sqlQuery = NoQuery
    /\ sqlResult = NoSQL
    /\ sqlSwapped = NoSQL
    /\ search \in {Received(body) : body \in SearchBodies}

NextSearch == SearchLogs

SpecSearch == InitSearch /\ [][NextSearch]_vars

\* C24: a search request whose limit is outside 1..1000 or whose start is zero
\* is answered with the BadInput field error for limit or start
\* and reaches neither the SQL text nor the store; a request whose query is
\* valid is not rejected by the validation.
C24_ValidatedBeforeQuery ==
    (search.pc = "responded" /\ search.body.kind = "query") =>
        IF Validate(search.body.query) # Valid
        THEN /\ search.status = StatusUnprocessableEntity
             /\ search.fields = {Validate(search.body.query).field}
             /\ sqlResult.Query = ""
             /\ ~search.executed
        ELSE search.executed \/ sqlResult.err # "nil"

\* ------------------------------------------------------------ processor inputs
\* the JSON objects handed to Process: every choice of a timestamp, a level, a
\* message and one more key, each of them absent, a string or a number
Absent == [k |-> "absent", v |-> ""]
JsonObject(t, l, m, host) ==
    LET members == (LogTimestampFieldName :> t) @@ (LogLevelFieldName :> l)
                   @@ (LogMessageFieldName :> m) @@ ("host" :> host)
    IN [key \in {k \in DOMAIN members : members[k] # Absent} |-> members[key]]
JsonTimestamps ==
    {Absent, JStr("2024-01-02T03:04:05Z"), JStr("2024-01-02T04:04:05+01:00"),
     JStr(""), JStr("yesterday"), JNum("1704164645")}
JsonLevels == {Absent, JStr("WARN"), JStr("info"), JStr("verbose"), JNum("3")}
JsonMessages == {Absent, JStr("disk full"), JNum("7")}
JsonHosts == {Absent, JStr("web1")}
JsonRecords ==
    {[ZeroRecord EXCEPT !.source = "app", !.rawData = raw] :
        raw \in {RawText("disk full")}
                \cup {RawObject("{json}", JsonObject(t, l, m, host)) :
                        t \in JsonTimestamps, l \in JsonLevels,
                        m \in JsonMessages, host \in JsonHosts}}

\* Process is called once on a record
InitJson ==
    /\ InitStorage({0}, {0})
    /\ InitEngine
    /\ InitIdleRun /\ InitIdleLexer /\ InitIdleParser /\ InitIdleSQL
    /\ InitIdleSearch /\ InitIdleTail
    /\ jsonCall \in {[NoJsonCall EXCEPT !.record = r] : r \in JsonRecords}

NextJson == JsonProcessCall

SpecJson == InitJson /\ [][NextJson]_vars

\* the instant an RFC 3339 text names, and the level a level text names
Instants ==
    ("2024-01-02T03:04:05Z" :> Unix(1704164645))
    @@ ("2024-01-02T04:04:05+01:00" :> Unix(1704164645))
LevelNamed == ("WARN" :> LogLevelWarn) @@ ("info" :> LogLevelInfo)
              @@ ("verbose" :> LogLevelUnknown)
IsString(doc, key) == key \in DOMAIN doc /\ doc[key].k = "string"

\* C25: for a JSON object whose timestamp field is a string that is not empty
\* and parses as RFC 3339 and whose level field is a string, Process succeeds
\* with the parsed timestamp, the level parseLevel gives the level string, the
\* message field if it is a string and the empty message otherwise, and as
\* metadata the object without the three configured keys; when the timestamp
\* is missing, not a string, empty or not parseable, or the level is missing
\* or not a string, Process returns an error.
C25_JsonExtraction ==
    (jsonCall.called /\ jsonCall.record.rawData.json = "object") =>
        LET doc == jsonCall.record.rawData.doc
            rec == jsonCall.result.rec
        IN IF /\ IsString(doc, LogTimestampFieldName)
              /\ doc[LogTimestampFieldName].v \in DOMAIN Instants
              /\ IsString(doc, LogLevelFieldName)
           THEN /\ ~jsonCall.result.err
                /\ rec.timestamp = Instants[doc[LogTimestampFieldName].v]
                /\ rec.level = LevelNamed[doc[LogLevelFieldName].v]
                /\ rec.message = (IF IsString(doc, LogMessageFieldName)
                                  THEN doc[LogMessageFieldName].v ELSE "")
                /\ DOMAIN rec.metadata =
                      DOMAIN doc \ {LogTimestampFieldName, LogLevelFieldName,
                                    LogMessageFieldName}
                /\ \A key \in DOMAIN rec.metadata : rec.metadata[key] = doc[key]
           ELSE jsonCall.result.err

C25_Witness ==
    /\ jsonCall.called
    /\ jsonCall.record.rawData.doc =
          JsonObject(JStr("2024-01-02T04:04:05+01:00"), JStr("WARN"), JNum("7"),
                     JStr("web1"))
    /\ ~jsonCall.result.err
    /\ jsonCall.result.rec.timestamp = Unix(1704164645)
    /\ jsonCall.result.rec.level = LogLevelWarn
    /\ jsonCall.result.rec.message = ""
    /\ DOMAIN jsonCall.result.rec.metadata = {"host"}

\* ------------------------------------------------------------ tailed file
\* what the file holds when Provide opens it, and what is appended in one
\* write: a line, the start of a line, the end of a line, a line and the
\* start of the next
TailBefore == {"", "x\n", "x"}
TailChunks == {"a\n", "a", "\n", "b\nc"}

InitTail ==
    /\ InitStorage({0}, {0})
    /\ InitEngine
    /\ InitIdleRun /\ InitIdleLexer /\ InitIdleParser /\ InitIdleSQL
    /\ InitIdleSearch /\ InitIdleJson
    /\ tail \in {[NoTail EXCEPT !.pc = "open", !.before = b] : b \in TailBefore}

NextTail ==
    \/ TailOpen
    \/ TailSeek
    \/ TailWatch
    \/ \E chunk \in TailChunks : TailAppend(chunk)
    \/ TailTouch
    \/ TailCancel
    \/ TailDone
    \/ TailEvent
    \/ TailWatcherEnd
    \/ TailRead
    \/ TailSend

SpecTail == InitTail /\ [][NextTail]_vars

\* the whole lines of a text, each with its newline, and the text they make
RECURSIVE WholeLines(_, _)
WholeLines(text, from) ==
    IF \A at \in from..Len(text) : SubSeq(text, at, at) # "\n" THEN <<>>
    ELSE LET end == CHOOSE at \in from..Len(text) :
                       /\ SubSeq(text, at, at) = "\n"
                       /\ \A b \in from..(at - 1) : SubSeq(text, b, b) # "\n"
         IN <<SubSeq(text, from, end)>> \o WholeLines(text, end + 1)
IsPrefix(s, t) == Len(s) <= Len(t) /\ SubSeq(t, 1, Len(s)) = s

\* C27: whatever is appended to the file, an append that ends in the middle
\* of a line and a later one that completes it included, every record holds
\* exactly one whole line with its newline, the lines written after Provide
\* opened the file are emitted once each and in order, and no record holds
\* bytes the file held before.
C27_CompleteLines ==
    /\ IsPrefix(tail.emitted, WholeLines(tail.before \o tail.written, Len(tail.before) + 1))
    /\ (tail.pc = "select" /\ tail.events = <<>> /\ tail.unread = "") =>
          tail.emitted = WholeLines(tail.before \o tail.written, Len(tail.before) + 1)

\* C26: the raw channel is closed once, by the aggregator, and only after
\* the Provide of every source has returned, so that no source sends on the
\* closed channel, whether the sources end by themselves, fail at start-up or
\* are cancelled.
C26_RawClosedAfterSources ==
    [][/\ (~rawClosed /\ rawClosed') => \A s \in SourceKeys : srcPc[s] = "returned"
       /\ rawClosed =>
             /\ rawClosed'
             /\ Len(rawLogs') <= Len(rawLogs)
             /\ \A s \in SourceKeys : srcPc'[s] = "returned"]_vars

C26_Witness ==
    /\ rawClosed
    /\ ctxDone
    /\ nLines = MaxLines
    /\ \A s \in SourceKeys : AllRead(srcUnread[s]) /\ srcPc[s] = "returned"

\* the records of the batches taken out of the buffer: those a caller of
\* flushBuffers or addProcessedLogs carries from the unlock to its call of
\* flushProcessedLogs, and those of the StoreProcessedLogs calls started
RECURSIVE Flatten(_)
Flatten(batches) ==
    IF batches = <<>> THEN <<>> ELSE Head(batches) \o Flatten(Tail(batches))
Carried == <<smToFlush>> \o [a \in 1..Cardinality(Adders) |-> addToFlush[a]]
Dispatched == Flatten(Carried) \o Flatten([i \in DOMAIN flights |-> flights[i].batch])

\* C29: in every interleaving of concurrent addProcessedLogs calls, ticks and
\* the final flush, each record added is either in the buffer or in exactly
\* one batch taken out of it for StoreProcessedLogs, never in both and never
\* in two batches: the records of the batches and of the buffer together are
\* the records added so far, each once.
C29_Conservation ==
    LET held == processedBuffer \o Dispatched
    IN /\ Len(held) = nAdded
       /\ {held[i] : i \in DOMAIN held} = 1..nAdded

C29_Witness ==
    /\ addPc[1] = "dispatch"
    /\ addToFlush[1] = <<1, 2>>
    /\ smPc = "tickFlush"
    /\ smToFlush = <<3>>
    /\ processedBuffer = <<>>
    /\ nAdded = 3

\* C30: StoreProcessedLogs is never called with an empty batch (a tick, a
\* cancellation or an Add of no records that finds the buffer empty starts no
\* call), and with a maximum size above zero the buffer holds fewer records
\* than the maximum whenever the mutex is free.
C30_BatchBounds ==
    /\ \A i \in DOMAIN flights : flights[i].batch # <<>>
    /\ nAdded = 0 => flights = <<>>
    /\ bufferMaxSize > 0 => Len(processedBuffer) < bufferMaxSize

C30_Witness ==
    /\ bufferMaxSize = 2
    /\ ticks = 1 /\ tickSeen[1].buffer = <<>>
    /\ calls = <<0, 1>>
    /\ finalSeen.set /\ finalSeen.buffer = <<1>>
    /\ smPc = "wait"
    /\ Len(flights) = 1 /\ flights[1].batch = <<1>>
    /\ processedBuffer = <<>>

====
